---- MODULE Spec2Model ----
(***************************************************************************)
(* A model of the emuchip CHIP-8 emulator: the instruction decoder         *)
(* (decode.rs), the register file and program counter (registers.rs), the  *)
(* memory (memory.rs), the framebuffer (display.rs) and the executor and   *)
(* control loop (emulator.rs, main.rs).                                    *)
(*                                                                         *)
(* The control loop is modelled with one action per call made by the loop  *)
(* body of main(): FetchDecode (can_execute holds, fetch_decode), Idle     *)
(* (can_execute fails), Execute (execute_ins) and SyncTimers               *)
(* (sync_timers); Tick lets one millisecond of wall-clock time pass.  The  *)
(* specifications share these actions:                                     *)
(*   SpecDecode  every 2-byte ROM is loaded and its instruction decoded;   *)
(*   SpecAlu     a decoded register-register ALU opcode is executed on     *)
(*               sampled register contents;                                *)
(*   Spec        bounded ROMs are loaded and run to their end;             *)
(*   SpecCall    ROMs of calls and returns;                                *)
(*   SpecTimer   ROMs that set the timers and wait for a key;              *)
(*   SpecDraw    one Display on sampled coordinates, sprites and screens;  *)
(*   SpecScreen  ROMs that clear the screen and draw;                      *)
(*   SpecIndex   one instruction computing with V0 and the index register; *)
(*   SpecBoot    the start-up, from Memory::new to the loaded ROM;         *)
(*   SpecPad     one key opcode for each pad value;                        *)
(*   SpecLogic   one load, bitwise or add-constant opcode on sampled       *)
(*               register contents;                                        *)
(*   SpecAddress ROMs that move the index register and write through it;   *)
(*   SpecStore   ROMs that store registers and load them back;             *)
(*   SpecPace    straight-line ROMs, for the pacing of the loop.           *)
(***************************************************************************)
EXTENDS Integers, Naturals, Sequences, FiniteSets, TLC

VARIABLES
    bytes,      \* Memory.bytes: address -> byte, only the non-zero bytes are stored
    pc,         \* Memory.pc.0: the program counter
    pc_end,     \* Memory.pc.1: the load end set by set_end
    index,      \* Memory.index.0
    stack,      \* Memory.stack.addresses
    regs,       \* Registers.registers
    operation,  \* main(): the opcode returned by fetch_decode
    ctl,        \* position of the control loop: "fetch" (the loop top), "execute",
                \* "sync", "exited", "panicked"; "constructed" while
                \* Emulator::init has not loaded the ROM yet
    delay_timer,    \* Emulator.delay_timer.count
    sound_timer,    \* Emulator.sound_timer.count
    elapsed_delay,  \* Emulator.last_delay.elapsed().as_millis(), up to MaxElapsed
    elapsed_sound,  \* Emulator.last_sound.elapsed().as_millis(), up to MaxElapsed
    elapsed_ins,    \* Emulator.last_ins.elapsed().as_millis(), up to INS_INTERVAL
    pressed,        \* the keys the window reported to the last key opcode
    beeps,          \* the number of calls of Sound::beep
    bit_buffer,     \* FrameBuffer.bit_buffer: the indices of the cells that are 1
    should_update,  \* FrameBuffer.should_update
    pushes          \* the number of calls of Window::update_with_buffer

vars == <<bytes, pc, pc_end, index, stack, regs, operation, ctl,
          delay_timer, sound_timer, elapsed_delay, elapsed_sound, elapsed_ins,
          pressed, beeps, bit_buffer, should_update, pushes>>

----------------------------------------------------------------------------
(* Machine integers *)

U8 == 256

U16 == 65536

MEM_SIZE == 4096

ROM_START == 512

FONT_START == 80

RECURSIVE Pow2(_)
Pow2(n) == IF n = 0 THEN 1 ELSE 2 * Pow2(n - 1)

\* bitwise AND of two naturals below 2^w
RECURSIVE BitAnd(_, _, _)
BitAnd(a, b, w) ==
    IF w = 0 THEN 0
    ELSE (IF a % 2 = 1 /\ b % 2 = 1 THEN 1 ELSE 0) + 2 * BitAnd(a \div 2, b \div 2, w - 1)

\* bitwise OR of two naturals below 2^w
RECURSIVE BitOr(_, _, _)
BitOr(a, b, w) ==
    IF w = 0 THEN 0
    ELSE (IF a % 2 = 1 \/ b % 2 = 1 THEN 1 ELSE 0) + 2 * BitOr(a \div 2, b \div 2, w - 1)

\* bitwise XOR of two naturals below 2^w
RECURSIVE BitXor(_, _, _)
BitXor(a, b, w) ==
    IF w = 0 THEN 0
    ELSE (IF a % 2 # b % 2 THEN 1 ELSE 0) + 2 * BitXor(a \div 2, b \div 2, w - 1)

\* u16 << s, bits shifted out are lost
Shl16(a, s) == (a * Pow2(s)) % U16

\* u16 >> s
Shr16(a, s) == a \div Pow2(s)

----------------------------------------------------------------------------
(* decode.rs: RawInstruction *)

RawInstruction_new(code) == [code |-> code, i |-> 1]

\* the mask built by the loop of nth_m_digits: m nibbles of ones
RECURSIVE NibbleMask(_)
NibbleMask(m) == IF m = 0 THEN 0 ELSE BitOr(Shl16(NibbleMask(m - 1), 4), 15, 16)

\* nth_m_digits with the digits counted from the least significant end
nth_m_digits_from_low_end(code, n, m) ==
    IF 4 - m - (n - 1) < 0 THEN -1
    ELSE LET shift_places == (n - 1) * 4
             mask == NibbleMask(m)
         IN  Shr16(BitAnd(code, Shl16(mask, shift_places), 16), shift_places)

\* nth_m_digits with the mask left unshifted before the AND
nth_m_digits_unshifted_mask(code, n, m) ==
    IF 4 - m - (n - 1) < 0 THEN -1
    ELSE LET shift_places == (4 - m - (n - 1)) * 4
             mask == NibbleMask(m)
         IN  Shr16(BitAnd(code, mask, 16), shift_places)

\* n is the starting digit, m the length; -1 stands for the u8 underflow of
\* the shift computation (4 - m - (n - 1) below 0)
nth_m_digits(code, n, m) ==
    IF 4 - m - (n - 1) < 0 THEN -1
    ELSE LET shift_places == (4 - m - (n - 1)) * 4
             mask == NibbleMask(m)
         IN  Shr16(BitAnd(code, Shl16(mask, shift_places), 16), shift_places)

\* a cursor step: ok is FALSE when the guard panics, val is the field read,
\* raw the instruction with the cursor advanced
CursorStep(raw, limit, m, width) ==
    IF raw.i > limit
    THEN [ok |-> FALSE, val |-> 0, raw |-> raw]
    ELSE LET v == nth_m_digits(raw.code, raw.i, m)
         IN  [ok |-> v >= 0,
              val |-> IF v >= 0 THEN v % width ELSE 0,
              raw |-> [raw EXCEPT !.i = @ + m]]

start_identifier(raw) == CursorStep(raw, 1, 1, U8)

next_register(raw) == CursorStep(raw, 4, 1, U8)

next_address(raw) == CursorStep(raw, 2, 3, U16)

\* next_u8 with the guard of next_address
next_u8_address_guard(raw) == CursorStep(raw, 2, 2, U8)

next_u8(raw) == CursorStep(raw, 3, 2, U8)

next_u4(raw) == next_register(raw)

----------------------------------------------------------------------------
(* decode.rs: OpCodes.  An opcode is a tuple: its variant name, then its   *)
(* operands.  Panic is the outcome of a cursor guard that panicked.        *)

Panic == <<"Panic">>

Unimplemented == <<"Unimplemented">>

\* Variant(raw.next_address())
OpAddr(tag, raw) ==
    LET a == next_address(raw)
    IN  IF a.ok THEN <<tag, a.val>> ELSE Panic

\* Variant(raw.next_register(), raw.next_u8()), operands read left to right
OpRegU8(tag, raw) ==
    LET x == next_register(raw)
        nn == next_u8(x.raw)
    IN  IF x.ok /\ nn.ok THEN <<tag, x.val, nn.val>> ELSE Panic

\* Variant(raw.next_register(), raw.next_register())
OpRegReg(tag, raw) ==
    LET x == next_register(raw)
        y == next_register(x.raw)
    IN  IF x.ok /\ y.ok THEN <<tag, x.val, y.val>> ELSE Panic

\* family 0x8: two registers, then the ALU type in the last nibble
OpAlu(raw) ==
    LET x == next_register(raw)
        y == next_register(x.raw)
        alu_type == next_u4(y.raw)
    IN  IF ~(x.ok /\ y.ok /\ alu_type.ok) THEN Panic
        ELSE CASE alu_type.val = 0 -> <<"CopyRegister", x.val, y.val>>
               [] alu_type.val = 1 -> <<"Or", x.val, y.val>>
               [] alu_type.val = 2 -> <<"And", x.val, y.val>>
               [] alu_type.val = 3 -> <<"XOr", x.val, y.val>>
               [] alu_type.val = 4 -> <<"Add", x.val, y.val>>
               [] alu_type.val = 5 -> <<"SubtractForward", x.val, y.val>>
               [] alu_type.val = 6 -> <<"RightShift", x.val, y.val>>
               [] alu_type.val = 7 -> <<"SubtractBackward", x.val, y.val>>
               [] alu_type.val = 14 -> <<"LeftShift", x.val, y.val>>
               [] OTHER -> Unimplemented

\* family 0xD: Display(next_register, next_register, next_u4)
OpDisplay(raw) ==
    LET x == next_register(raw)
        y == next_register(x.raw)
        n == next_u4(y.raw)
    IN  IF x.ok /\ y.ok /\ n.ok THEN <<"Display", x.val, y.val, n.val>> ELSE Panic

\* family 0xE: a register, then the key operation in the low byte
OpKey(raw) ==
    LET x == next_register(raw)
        k_type == next_u8(x.raw)
    IN  IF ~(x.ok /\ k_type.ok) THEN Panic
        ELSE CASE k_type.val = 158 -> <<"SkipIfPressed", x.val>>
               [] k_type.val = 161 -> <<"SkipIfNotPressed", x.val>>
               [] OTHER -> Unimplemented

\* family 0xF: a register, then the operation in the low byte
OpMisc(raw) ==
    LET x == next_register(raw)
        f_type == next_u8(x.raw)
    IN  IF ~(x.ok /\ f_type.ok) THEN Panic
        ELSE CASE f_type.val = 7 -> <<"CopyDelayToRegister", x.val>>
               [] f_type.val = 10 -> <<"GetKey", x.val>>
               [] f_type.val = 21 -> <<"CopyRegisterToDelay", x.val>>
               [] f_type.val = 24 -> <<"CopyRegisterToSound", x.val>>
               [] f_type.val = 30 -> <<"AddToIndex", x.val>>
               [] f_type.val = 41 -> <<"PointChar", x.val>>
               [] f_type.val = 51 -> <<"ToDecimal", x.val>>
               [] f_type.val = 85 -> <<"StoreRegisterToMemory", x.val>>
               [] f_type.val = 101 -> <<"LoadRegisterFromMemory", x.val>>
               [] OTHER -> Unimplemented

decode_raw(ins) ==
    LET raw == RawInstruction_new(ins)
        id == start_identifier(raw)
    IN  IF ~id.ok THEN Panic
        ELSE CASE id.val = 0 -> (CASE ins = 224 -> <<"ClearScreen">>
                                   [] ins = 238 -> <<"PopSubroutine">>
                                   [] OTHER -> Unimplemented)
               [] id.val = 1 -> OpAddr("Jump", id.raw)
               [] id.val = 2 -> OpAddr("PushSubroutine", id.raw)
               [] id.val = 3 -> OpRegU8("SkipEqualConstant", id.raw)
               [] id.val = 4 -> OpRegU8("SkipNotEqualConstant", id.raw)
               [] id.val = 5 -> OpRegReg("SkipEqualRegister", id.raw)
               [] id.val = 6 -> OpRegU8("SetRegister", id.raw)
               [] id.val = 7 -> OpRegU8("AddToRegister", id.raw)
               [] id.val = 8 -> OpAlu(id.raw)
               [] id.val = 9 -> OpRegReg("SkipNotEqualRegister", id.raw)
               [] id.val = 10 -> OpAddr("SetIndexRegister", id.raw)
               [] id.val = 11 -> OpAddr("JumpWithOffset", id.raw)
               [] id.val = 12 -> OpRegU8("Random", id.raw)
               [] id.val = 13 -> OpDisplay(id.raw)
               [] id.val = 14 -> OpKey(id.raw)
               [] id.val = 15 -> OpMisc(id.raw)
               [] OTHER -> Unimplemented

----------------------------------------------------------------------------
(* memory.rs: Memory *)

DEFAULT_FONT ==
    << 240, 144, 144, 144, 240,
       32, 96, 32, 32, 112,
       240, 16, 240, 128, 240,
       240, 16, 240, 16, 240,
       144, 144, 240, 16, 16,
       240, 128, 240, 16, 240,
       240, 128, 240, 144, 240,
       240, 16, 32, 64, 64,
       240, 144, 240, 144, 240,
       240, 144, 240, 16, 240,
       240, 144, 240, 144, 144,
       224, 144, 224, 144, 224,
       240, 128, 128, 128, 240,
       224, 144, 144, 144, 224,
       240, 128, 240, 128, 240,
       240, 128, 240, 128, 128 >>

\* Memory::get on an address inside the array
MemGet(b, addr) == IF addr \in DOMAIN b THEN b[addr] ELSE 0

\* the font bytes as load_rom copies them to 0x50..
FontImage ==
    [a \in {c \in FONT_START .. FONT_START + Len(DEFAULT_FONT) - 1 :
                DEFAULT_FONT[c - FONT_START + 1] # 0}
        |-> DEFAULT_FONT[a - FONT_START + 1]]

\* Memory::load_rom on the memory of Memory::new (all zero): the program at
\* 0x200 when it fits, then the font at 0x50
load_rom_bytes(rom) ==
    LET fits == ROM_START + Len(rom) <= MEM_SIZE
        image == IF fits
                 THEN [a \in {ROM_START + k - 1 : k \in {j \in 1 .. Len(rom) : rom[j] # 0}}
                          |-> rom[a - ROM_START + 1]]
                 ELSE << >>
    IN  FontImage @@ image

\* ProgramCounter::set_end on the counter of Memory::new
set_end(len) == (ROM_START + (len % U16)) % U16

\* the longest elapsed time, in milliseconds, that the model tells apart
MaxElapsed == 33

\* emulator.rs: the target number of instructions per second
INS_PER_SECOND == 700

\* 1_000 / INS_PER_SECOND, the pacing interval of can_execute, in whole
\* milliseconds
INS_INTERVAL == 1000 \div INS_PER_SECOND

\* 1_000 / 60, the tick interval of Timer::sync
TICK_INTERVAL == 1000 \div 60

\* the timers of Emulator::init, t milliseconds after the three
\* Instant::now() readings
TimersAt(t) ==
    /\ delay_timer = 0
    /\ sound_timer = 0
    /\ elapsed_delay = IF t < MaxElapsed THEN t ELSE MaxElapsed
    /\ elapsed_sound = IF t < MaxElapsed THEN t ELSE MaxElapsed
    /\ elapsed_ins = IF t < INS_INTERVAL THEN t ELSE INS_INTERVAL
    /\ pressed = {}
    /\ beeps = 0

\* FrameBuffer::new
FrameBuffer_new ==
    /\ bit_buffer = {}
    /\ should_update = FALSE
    /\ pushes = 0

\* the memory, registers, screen and loop position left by Emulator::init
\* for a ROM
MachineWith(rom) ==
    /\ FrameBuffer_new
    /\ bytes = load_rom_bytes(rom)
    /\ pc = ROM_START
    /\ pc_end = set_end(Len(rom))
    /\ index = 0
    /\ stack = << >>
    /\ regs = [r \in 0 .. 15 |-> 0]
    /\ operation = <<"None">>
    /\ ctl = "fetch"

\* the state left by Emulator::init for a ROM
InitWith(rom) == MachineWith(rom) /\ TimersAt(0)

\* Emulator::can_execute
can_execute == elapsed_ins >= INS_INTERVAL

\* Memory::next_instruction with Memory::increment_pc and
\* OpCodes::decode_raw, as called by Emulator::fetch_decode
FetchDecode ==
    /\ ctl = "fetch"
    /\ can_execute
    /\ elapsed_ins' = 0
    /\ UNCHANGED <<delay_timer, sound_timer, elapsed_delay, elapsed_sound, pressed, beeps,
                   bit_buffer, should_update, pushes>>
    /\ IF pc >= MEM_SIZE \/ pc + 1 >= MEM_SIZE
       THEN /\ ctl' = "panicked"
            /\ UNCHANGED <<bytes, pc, pc_end, index, stack, regs, operation>>
       ELSE LET l == MemGet(bytes, pc)
                r == MemGet(bytes, pc + 1)
                ins == BitOr(Shl16(l, 8), r, 16)
            IN  /\ pc' = pc + 2
                /\ IF pc + 2 <= pc_end
                   THEN /\ operation' = decode_raw(ins)
                        /\ ctl' = IF operation' = Panic THEN "panicked" ELSE "execute"
                   ELSE /\ ctl' = "exited"
                        /\ UNCHANGED operation
                /\ UNCHANGED <<bytes, pc_end, index, stack, regs>>

----------------------------------------------------------------------------------------------------------------------------------------
(* registers.rs: Registers *)

set_register(R, reg_num, value) == [R EXCEPT ![reg_num] = value]

\* an addition that records the carry in VF, as Add does
add_to_register_with_carry(R, reg_num, value) ==
    IF R[reg_num] + value < U8
    THEN [[R EXCEPT ![reg_num] = R[reg_num] + value] EXCEPT ![15] = 0]
    ELSE [[R EXCEPT ![reg_num] = BitAnd(R[reg_num] + value, 255, 16)] EXCEPT ![15] = 1]

\* checked_add, and the low 8 bits of the u16 sum when it overflows
add_to_register(R, reg_num, value) ==
    IF R[reg_num] + value < U8
    THEN [R EXCEPT ![reg_num] = R[reg_num] + value]
    ELSE [R EXCEPT ![reg_num] = BitAnd(R[reg_num] + value, 255, 16)]

----------------------------------------------------------------------------
(* emulator.rs: the register-register arms of Emulator::execute_ins, each  *)
(* as the register file it leaves                                          *)

CopyRegister(R, vx, vy) == set_register(R, vx, R[vy])

\* an Or that resets VF afterwards, as the COSMAC VIP interpreter did
Or_flag_reset(R, vx, vy) ==
    set_register(set_register(R, vx, BitOr(R[vy], R[vx], 8)), 15, 0)

Or(R, vx, vy) == set_register(R, vx, BitOr(R[vy], R[vx], 8))

And(R, vx, vy) == set_register(R, vx, BitAnd(R[vy], R[vx], 8))

XOr(R, vx, vy) == set_register(R, vx, BitXor(R[vy], R[vx], 8))

\* Add with the two flag values exchanged
Add_flag_exchanged(R, vx, vy) ==
    LET x == R[vy]
        y == R[vx]
    IN  IF x + y < U8
        THEN set_register(set_register(R, vx, x + y), 15, 1)
        ELSE set_register(set_register(R, vx, BitAnd(x + y, 255, 16)), 15, 0)

Add(R, vx, vy) ==
    LET x == R[vy]
        y == R[vx]
    IN  IF x + y < U8
        THEN set_register(set_register(R, vx, x + y), 15, 0)
        ELSE set_register(set_register(R, vx, BitAnd(x + y, 255, 16)), 15, 1)

SubtractForward(R, vx, vy) ==
    LET x == R[vx]
        y == R[vy]
    IN  IF x >= y
        THEN set_register(set_register(R, vx, x - y), 15, 1)
        ELSE set_register(set_register(R, vx, (x - y) % U8), 15, 0)

\* SubtractBackward computing dest - source like SubtractForward
SubtractBackward_as_forward(R, vx, vy) ==
    LET x == R[vx]
        y == R[vy]
    IN  IF x >= y
        THEN set_register(set_register(R, vx, x - y), 15, 1)
        ELSE set_register(set_register(R, vx, (x - y) % U8), 15, 0)

SubtractBackward(R, vx, vy) ==
    LET x == R[vx]
        y == R[vy]
    IN  IF y >= x
        THEN set_register(set_register(R, vx, y - x), 15, 1)
        ELSE set_register(set_register(R, vx, (y - x) % U8), 15, 0)

\* LeftShift writing the flag before the shifted value
LeftShift_flag_first(R, vx) ==
    LET vx_value == R[vx]
        vf == BitAnd(vx_value \div 128, 1, 8)
    IN  set_register(set_register(R, 15, vf), vx, (vx_value * 2) % U8)

LeftShift(R, vx) ==
    LET vx_value == R[vx]
        vf == BitAnd(vx_value \div 128, 1, 8)
    IN  set_register(set_register(R, vx, (vx_value * 2) % U8), 15, vf)

\* RightShift taking the flag from the value after the shift
RightShift_flag_after(R, vx) ==
    LET vx_value == R[vx] \div 2
        vf == BitAnd(vx_value, 1, 8)
    IN  set_register(set_register(R, vx, vx_value), 15, vf)

RightShift(R, vx) ==
    LET vx_value == R[vx]
        vf == BitAnd(vx_value, 1, 8)
    IN  set_register(set_register(R, vx, vx_value \div 2), 15, vf)

----------------------------------------------------------------------------
(* main.rs: the key tables the executor imports.  A physical key is a      *)
(* string; "Q" and "Space" stand for the keys outside both tables.         *)

KEYS ==
    << "Key0", "Key1", "Key2", "Key3", "Key4", "Key5", "Key6", "Key7",
       "Key8", "Key9", "A", "B", "C", "D", "E", "F" >>

\* -1 stands for None
key_to_u8(key) ==
    CASE key = "Key0" -> 0
      [] key = "Key1" -> 1
      [] key = "Key2" -> 2
      [] key = "Key3" -> 3
      [] key = "Key4" -> 4
      [] key = "Key5" -> 4
      [] key = "Key6" -> 5
      [] key = "Key7" -> 6
      [] key = "Key8" -> 7
      [] key = "Key9" -> 9
      [] key = "A" -> 10
      [] key = "B" -> 11
      [] key = "C" -> 12
      [] key = "D" -> 13
      [] key = "E" -> 14
      [] key = "F" -> 15
      [] OTHER -> -1

\* display.rs: the pad value FrameBuffer::wait_for_key gives a physical key,
\* by the layout 1234/QWER/ASDF/ZXCV; -1 stands for a key outside the
\* layout.  FrameBuffer::check_for_keys uses the same table.  No arm of
\* execute_ins calls either.
wait_for_key(key) ==
    CASE key = "Key1" -> 1
      [] key = "Key2" -> 2
      [] key = "Key3" -> 3
      [] key = "Key4" -> 12
      [] key = "Q" -> 4
      [] key = "W" -> 5
      [] key = "E" -> 6
      [] key = "R" -> 13
      [] key = "A" -> 7
      [] key = "S" -> 8
      [] key = "D" -> 9
      [] key = "F" -> 14
      [] key = "Z" -> 10
      [] key = "X" -> 0
      [] key = "C" -> 11
      [] key = "V" -> 15
      [] OTHER -> -1

----------------------------------------------------------------------------
(* emulator.rs: Emulator::execute_ins *)

\* the longest call stack the model follows
MaxStack == 2

\* an arm that only writes registers
RegsArm(R) ==
    /\ regs' = R
    /\ ctl' = "sync"
    /\ UNCHANGED <<bytes, pc, index, stack>>

\* Memory::set_pc
set_pc(addr) ==
    /\ pc' = addr
    /\ ctl' = "sync"
    /\ UNCHANGED <<bytes, index, stack, regs>>

\* Memory::increment_pc: the process exits when the counter passes the end
increment_pc ==
    /\ pc' = pc + 2
    /\ ctl' = IF pc + 2 <= pc_end THEN "sync" ELSE "exited"
    /\ UNCHANGED <<bytes, index, stack, regs>>

\* a retreat that leaves the program counter where it is
decrement_pc_kept ==
    /\ pc' = pc
    /\ ctl' = "sync"
    /\ UNCHANGED <<bytes, index, stack, regs>>

\* Memory::decrement_pc
decrement_pc ==
    /\ pc' = IF pc = 0 THEN pc ELSE pc - 2
    /\ ctl' = "sync"
    /\ UNCHANGED <<bytes, index, stack, regs>>

\* an arm that changes nothing
NoEffect ==
    /\ ctl' = "sync"
    /\ UNCHANGED <<bytes, pc, index, stack, regs>>

\* a failure inside an arm that is passed over
ArmPanics_passed_over ==
    /\ ctl' = "sync"
    /\ UNCHANGED <<bytes, pc, index, stack, regs>>

\* a panic inside an arm (unwrap of None, index out of bounds)
ArmPanics ==
    /\ ctl' = "panicked"
    /\ UNCHANGED <<bytes, pc, index, stack, regs>>

\* one of the four register/constant skips
SkipArm(cond) == IF cond THEN increment_pc ELSE NoEffect

\* SkipIfPressed and SkipIfNotPressed: ProgramCounter::increment is called
\* directly and its result dropped
KeySkipArm(vx, down, wanted) ==
    IF regs[vx] >= Len(KEYS) THEN ArmPanics
    ELSE IF (KEYS[regs[vx] + 1] \in down) = wanted
         THEN set_pc(pc + 2)
         ELSE NoEffect

\* a GetKey that, with no key down, starts the next loop iteration at once
GetKeyArm_restarts_loop(vx, down) ==
    IF down = {}
    THEN /\ pc' = pc - 2
         /\ ctl' = "fetch"
         /\ UNCHANGED <<bytes, index, stack, regs>>
    ELSE \E key \in down :
            IF key_to_u8(key) >= 0
            THEN RegsArm(set_register(regs, vx, key_to_u8(key)))
            ELSE NoEffect

\* GetKey: pressed[0] is any of the keys that are down
GetKeyArm(vx, down) ==
    IF down = {} THEN decrement_pc
    ELSE \E key \in down :
            IF key_to_u8(key) >= 0
            THEN RegsArm(set_register(regs, vx, key_to_u8(key)))
            ELSE NoEffect

\* Stack::push of the program counter and Memory::set_pc
PushSubroutineArm(addr) ==
    /\ stack' = Append(stack, pc)
    /\ pc' = addr
    /\ ctl' = "sync"
    /\ UNCHANGED <<bytes, index, regs>>

\* a return that takes the oldest address of the stack
PopSubroutineArm_fifo ==
    IF stack = << >> THEN ArmPanics
    ELSE /\ pc' = stack[1]
         /\ stack' = SubSeq(stack, 2, Len(stack))
         /\ ctl' = "sync"
         /\ UNCHANGED <<bytes, index, regs>>

\* Stack::pop and Memory::set_pc; unwrap panics on an empty stack
PopSubroutineArm ==
    IF stack = << >> THEN ArmPanics
    ELSE /\ pc' = stack[Len(stack)]
         /\ stack' = SubSeq(stack, 1, Len(stack) - 1)
         /\ ctl' = "sync"
         /\ UNCHANGED <<bytes, index, regs>>

set_index(addr) ==
    /\ index' = addr
    /\ ctl' = "sync"
    /\ UNCHANGED <<bytes, pc, stack, regs>>

\* Timer::set
Timer_set(value) == value

\* display.rs: WIDTH and HEIGHT
WIDTH == 64

HEIGHT == 32

\* bit j of a sprite row, from the left: (row >> (7 - j)) & 1
SpriteBit(row, j) == (row \div Pow2(7 - j)) % 2

\* the index FrameBuffer::paint computes for bit j of sprite row i
PaintIndex(x, y, i, j) == (y + i) * WIDTH + x + j

\* a paint that sets the sprite's pixels instead of flipping them
paint_overwriting(buf, x, y, sprite) ==
    LET touched == (0 .. Len(sprite) - 1) \X (0 .. 7)
        inside == { c \in touched : PaintIndex(x, y, c[1], c[2]) < WIDTH * HEIGHT }
        ones == { PaintIndex(x, y, c[1], c[2]) :
                    c \in { d \in inside : SpriteBit(sprite[d[1] + 1], d[2]) = 1 } }
    IN  [ bit_buffer |-> buf \cup ones,
          vf |-> (buf \cap ones) # {},
          panics |-> inside # touched ]

\* FrameBuffer::paint on a bit buffer: the new bit buffer, the result, and
\* whether an index is out of bounds.  The indices grow in the order of the
\* two loops, so the cells written before the panic are those in bounds.
paint(buf, x, y, sprite) ==
    LET touched == (0 .. Len(sprite) - 1) \X (0 .. 7)
        inside == { c \in touched : PaintIndex(x, y, c[1], c[2]) < WIDTH * HEIGHT }
        ones == { PaintIndex(x, y, c[1], c[2]) :
                    c \in { d \in inside : SpriteBit(sprite[d[1] + 1], d[2]) = 1 } }
    IN  [ bit_buffer |-> (buf \ ones) \cup (ones \ buf),
          vf |-> (buf \cap ones) # {},
          panics |-> inside # touched ]

\* FrameBuffer::sync: the number of pushes after the call
FrameBuffer_sync(flag, n) == IF flag THEN n + 1 ELSE n

\* ClearScreen: FrameBuffer::clear_buffer and FrameBuffer::sync
ClearScreenArm ==
    /\ bit_buffer' = {}
    /\ should_update' = TRUE
    /\ pushes' = FrameBuffer_sync(should_update', pushes)
    /\ NoEffect

\* a Display that reports a collision whenever a pixel changes
DisplayArm_any_change(reg_x, reg_y, height) ==
    IF height > 0 /\ index + height - 1 >= MEM_SIZE
    THEN ArmPanics /\ UNCHANGED <<bit_buffer, should_update, pushes>>
    ELSE LET sprite == [k \in 1 .. height |-> MemGet(bytes, index + k - 1)]
             p == paint(bit_buffer, regs[reg_x], regs[reg_y], sprite)
         IN  /\ bit_buffer' = p.bit_buffer
             /\ IF p.panics
                THEN ArmPanics /\ UNCHANGED <<should_update, pushes>>
                ELSE /\ RegsArm(set_register(regs, 15,
                                 IF p.bit_buffer # bit_buffer THEN 1 ELSE 0))
                     /\ should_update' = TRUE
                     /\ pushes' = FrameBuffer_sync(should_update', pushes)

\* Display: the sprite is read from memory at the index register, painted
\* at (V[reg_x], V[reg_y]), VF is set and the framebuffer is synchronised
DisplayArm(reg_x, reg_y, height) ==
    IF height > 0 /\ index + height - 1 >= MEM_SIZE
    THEN ArmPanics /\ UNCHANGED <<bit_buffer, should_update, pushes>>
    ELSE LET sprite == [k \in 1 .. height |-> MemGet(bytes, index + k - 1)]
             p == paint(bit_buffer, regs[reg_x], regs[reg_y], sprite)
         IN  /\ bit_buffer' = p.bit_buffer
             /\ IF p.panics
                THEN ArmPanics /\ UNCHANGED <<should_update, pushes>>
                ELSE /\ RegsArm(set_register(regs, 15, IF p.vf THEN 1 ELSE 0))
                     /\ should_update' = TRUE
                     /\ pushes' = FrameBuffer_sync(should_update', pushes)

\* a jump that adds the register named by the first digit of the address
JumpWithOffset_by_named_register(R, addr) == addr + R[addr \div 256]

\* the target of JumpWithOffset
JumpWithOffset(R, addr) == addr + R[0]

\* AddToIndex: the u16 sum panics or wraps when it overflows, by the build
AddToIndexArm(vx) ==
    IF index + regs[vx] < U16
    THEN set_index(index + regs[vx])
    ELSE ArmPanics \/ set_index((index + regs[vx]) % U16)

\* a glyph address computed for glyphs of four rows
PointChar_four_rows(char) == (FONT_START + ((char * 4) % U8)) % U8

\* PointChar: 0x50 + char * 5 in u8 arithmetic, which panics or wraps when
\* it overflows, by the build
PointChar(char) == (FONT_START + ((char * 5) % U8)) % U8

PointCharArm(vx) ==
    IF regs[vx] * 5 < U8 /\ FONT_START + regs[vx] * 5 < U8
    THEN set_index(PointChar(regs[vx]))
    ELSE ArmPanics \/ set_index(PointChar(regs[vx]))

\* the decimal digits pushed by ToDecimal, after digits.reverse()
RECURSIVE ToDecimal(_)
ToDecimal(in_decimal) ==
    IF in_decimal = 0 THEN << >>
    ELSE Append(ToDecimal(in_decimal \div 10), in_decimal % 10)

\* Memory::set of consecutive bytes from an address on, up to the first
\* address out of bounds
MemWrite(b, addr, vals) ==
    LET at == { a \in addr .. addr + Len(vals) - 1 : a < MEM_SIZE }
        dom == { a \in (DOMAIN b) \cup at :
                    IF a \in at THEN vals[a - addr + 1] # 0 ELSE TRUE }
    IN  [a \in dom |-> IF a \in at THEN vals[a - addr + 1] ELSE b[a]]

ToDecimalArm(vx) ==
    LET digits == ToDecimal(regs[vx])
    IN  /\ bytes' = MemWrite(bytes, index, digits)
        /\ ctl' = IF index + Len(digits) > MEM_SIZE THEN "panicked" ELSE "sync"
        /\ UNCHANGED <<pc, index, stack, regs>>

\* LoadRegisterFromMemory: V0..Vx inclusive are read from index on; Memory::get
\* panics at the first address out of bounds, after the registers before it
\* have been set
LoadRegisterFromMemoryArm(vx) ==
    /\ regs' = [r \in 0 .. 15 |->
                  IF r <= vx /\ index + r < MEM_SIZE
                  THEN MemGet(bytes, index + r) ELSE regs[r]]
    /\ ctl' = IF index + vx >= MEM_SIZE THEN "panicked" ELSE "sync"
    /\ UNCHANGED <<bytes, pc, index, stack>>

\* a store that leaves the index register after the last byte written, as
\* the COSMAC VIP interpreter did
StoreRegisterToMemoryArm_index_advanced(vx) ==
    /\ bytes' = MemWrite(bytes, index, [k \in 1 .. vx + 1 |-> regs[k - 1]])
    /\ ctl' = IF index + vx >= MEM_SIZE THEN "panicked" ELSE "sync"
    /\ index' = index + vx + 1
    /\ UNCHANGED <<pc, stack, regs>>

\* StoreRegisterToMemory: V0..Vx inclusive are written from index on
StoreRegisterToMemoryArm(vx) ==
    /\ bytes' = MemWrite(bytes, index, [k \in 1 .. vx + 1 |-> regs[k - 1]])
    /\ ctl' = IF index + vx >= MEM_SIZE THEN "panicked" ELSE "sync"
    /\ UNCHANGED <<pc, index, stack, regs>>

execute_ins(ins, down) ==
  /\ delay_timer' = IF ins[1] = "CopyRegisterToDelay" THEN Timer_set(regs[ins[2]]) ELSE delay_timer
  /\ sound_timer' = IF ins[1] = "CopyRegisterToSound" THEN Timer_set(regs[ins[2]]) ELSE sound_timer
  /\ IF ins[1] \in {"ClearScreen", "Display"} THEN TRUE
     ELSE UNCHANGED <<bit_buffer, should_update, pushes>>
  /\
    CASE ins[1] = "Jump" -> set_pc(ins[2])
      [] ins[1] = "SetRegister" -> RegsArm(set_register(regs, ins[2], ins[3]))
      [] ins[1] = "AddToRegister" -> RegsArm(add_to_register(regs, ins[2], ins[3]))
      [] ins[1] = "SetIndexRegister" -> set_index(ins[2])
      [] ins[1] = "PushSubroutine" -> PushSubroutineArm(ins[2])
      [] ins[1] = "PopSubroutine" -> PopSubroutineArm
      [] ins[1] = "CopyRegister" -> RegsArm(CopyRegister(regs, ins[2], ins[3]))
      [] ins[1] = "Or" -> RegsArm(Or(regs, ins[2], ins[3]))
      [] ins[1] = "And" -> RegsArm(And(regs, ins[2], ins[3]))
      [] ins[1] = "XOr" -> RegsArm(XOr(regs, ins[2], ins[3]))
      [] ins[1] = "Add" -> RegsArm(Add(regs, ins[2], ins[3]))
      [] ins[1] = "SubtractForward" -> RegsArm(SubtractForward(regs, ins[2], ins[3]))
      [] ins[1] = "SubtractBackward" -> RegsArm(SubtractBackward(regs, ins[2], ins[3]))
      [] ins[1] = "LeftShift" -> RegsArm(LeftShift(regs, ins[2]))
      [] ins[1] = "RightShift" -> RegsArm(RightShift(regs, ins[2]))
      [] ins[1] = "JumpWithOffset" -> set_pc(JumpWithOffset(regs, ins[2]))
      [] ins[1] = "SkipEqualConstant" -> SkipArm(regs[ins[2]] = ins[3])
      [] ins[1] = "SkipNotEqualConstant" -> SkipArm(regs[ins[2]] # ins[3])
      [] ins[1] = "SkipEqualRegister" -> SkipArm(regs[ins[2]] = regs[ins[3]])
      [] ins[1] = "SkipNotEqualRegister" -> SkipArm(regs[ins[2]] # regs[ins[3]])
      [] ins[1] = "SkipIfPressed" -> KeySkipArm(ins[2], down, TRUE)
      [] ins[1] = "SkipIfNotPressed" -> KeySkipArm(ins[2], down, FALSE)
      [] ins[1] = "GetKey" -> GetKeyArm(ins[2], down)
      [] ins[1] = "CopyDelayToRegister" -> RegsArm(set_register(regs, ins[2], delay_timer))
      [] ins[1] = "CopyRegisterToDelay" -> NoEffect
      [] ins[1] = "CopyRegisterToSound" -> NoEffect
      [] ins[1] = "ClearScreen" -> ClearScreenArm
      [] ins[1] = "Display" -> DisplayArm(ins[2], ins[3], ins[4])
      [] ins[1] = "AddToIndex" -> AddToIndexArm(ins[2])
      [] ins[1] = "PointChar" -> PointCharArm(ins[2])
      [] ins[1] = "ToDecimal" -> ToDecimalArm(ins[2])
      [] ins[1] = "LoadRegisterFromMemory" -> LoadRegisterFromMemoryArm(ins[2])
      [] ins[1] = "StoreRegisterToMemory" -> StoreRegisterToMemoryArm(ins[2])
      [] ins[1] = "Unimplemented" -> NoEffect

\* the opcodes that ask the window for the keys
KeyOps == {"SkipIfPressed", "SkipIfNotPressed", "GetKey"}

\* the sets of keys that may be down during one loop iteration
KeyInputs == { {}, {"Key0"}, {"Key1"}, {"Key5"}, {"Q"} }

\* Emulator::execute_ins on the opcode that fetch_decode returned
Execute ==
    /\ ctl = "execute"
    /\ (operation[1] = "PushSubroutine" => Len(stack) < MaxStack)
    /\ \E down \in (IF operation[1] \in KeyOps THEN KeyInputs ELSE {pressed}) :
          /\ execute_ins(operation, down)
          /\ pressed' = down
    /\ UNCHANGED <<pc_end, operation, elapsed_delay, elapsed_sound, elapsed_ins, beeps>>

\* a loop iteration in which Emulator::can_execute fails
Idle ==
    /\ ctl = "fetch"
    /\ ~can_execute
    /\ ctl' = "sync"
    /\ UNCHANGED <<bytes, pc, pc_end, index, stack, regs, operation,
                   delay_timer, sound_timer, elapsed_delay, elapsed_sound,
                   elapsed_ins, pressed, beeps,
                   bit_buffer, should_update, pushes>>

\* Timer::sync of emulator.rs on a count and the time elapsed since
\* last_updated: the new count and the result
Timer_sync(count, elapsed_ms) ==
    IF count = 0 THEN <<count, FALSE>>
    ELSE IF elapsed_ms > TICK_INTERVAL
         THEN LET num_ticks == elapsed_ms \div TICK_INTERVAL
              IN  <<IF count < num_ticks THEN 0 ELSE count - num_ticks, TRUE>>
         ELSE <<count, FALSE>>

\* a sync_timers that sets last_delay and last_sound at every call
SyncTimers_refreshing ==
    /\ ctl = "sync"
    /\ delay_timer' = Timer_sync(delay_timer, elapsed_delay)[1]
    /\ elapsed_delay' = 0
    /\ sound_timer' = Timer_sync(sound_timer, elapsed_sound)[1]
    /\ elapsed_sound' = 0
    /\ ctl' = "fetch"
    /\ UNCHANGED <<bytes, pc, pc_end, index, stack, regs, operation,
                   elapsed_ins, pressed, beeps,
                   bit_buffer, should_update, pushes>>

\* Emulator::sync_timers, the last call of a loop iteration
SyncTimers ==
    /\ ctl = "sync"
    /\ LET d == Timer_sync(delay_timer, elapsed_delay)
           s == Timer_sync(sound_timer, elapsed_sound)
       IN  /\ delay_timer' = d[1]
           /\ elapsed_delay' = IF d[2] THEN 0 ELSE elapsed_delay
           /\ sound_timer' = s[1]
           /\ elapsed_sound' = IF s[2] THEN 0 ELSE elapsed_sound
    /\ ctl' = "fetch"
    /\ UNCHANGED <<bytes, pc, pc_end, index, stack, regs, operation,
                   elapsed_ins, pressed, beeps,
                   bit_buffer, should_update, pushes>>

\* one millisecond of wall-clock time passes while the process runs
Tick ==
    /\ ctl \in {"fetch", "execute", "sync"}
    /\ elapsed_delay' = IF elapsed_delay < MaxElapsed THEN elapsed_delay + 1 ELSE MaxElapsed
    /\ elapsed_sound' = IF elapsed_sound < MaxElapsed THEN elapsed_sound + 1 ELSE MaxElapsed
    /\ elapsed_ins' = IF elapsed_ins < INS_INTERVAL THEN elapsed_ins + 1 ELSE INS_INTERVAL
    /\ UNCHANGED <<bytes, pc, pc_end, index, stack, regs, operation, ctl,
                   delay_timer, sound_timer, pressed, beeps,
                   bit_buffer, should_update, pushes>>

----------------
(* The decoder on every 16-bit instruction: each 2-byte ROM is loaded and  *)
(* its single instruction is fetched and decoded, one pacing interval      *)
(* after Emulator::init.                                                   *)

InitDecode ==
    \E hi \in 0 .. 255 : \E lo \in 0 .. 255 :
        MachineWith(<<hi, lo>>) /\ TimersAt(INS_INTERVAL)

NextDecode == FetchDecode

SpecDecode == InitDecode /\ [][NextDecode]_vars

----------------------------------------------------------------------------
(* The register-register ALU opcodes: a ROM of one 8XYN instruction is     *)
(* loaded and run on sampled register contents.                            *)

\* how far the sampled register values reach from 0, from 128 and from 255
AluSpan == 3

AluSamples ==
    (0 .. AluSpan) \cup (127 - AluSpan .. 128 + AluSpan) \cup (255 - AluSpan .. 255)

\* the registers used as operands: two plain ones and the flag register
AluRegs == {0, 1, 15}

\* the last nibble of the 8XYN instructions run: Add, SubtractForward,
\* RightShift, SubtractBackward, LeftShift
AluTypes == {4, 5, 6, 7, 14}

\* the two bytes of a 16-bit instruction, big-endian
WordBytes(word) == <<word \div 256, word % 256>>

InitAlu ==
    \E n \in AluTypes : \E vx \in AluRegs : \E vy \in AluRegs :
    \E a \in AluSamples : \E b \in AluSamples : \E f \in 0 .. 1 :
        /\ bytes = load_rom_bytes(WordBytes(8 * 4096 + vx * 256 + vy * 16 + n))
        /\ pc = ROM_START
        /\ pc_end = set_end(2)
        /\ index = 0
        /\ stack = << >>
        /\ regs = [[[[r \in 0 .. 15 |-> 0] EXCEPT ![15] = f] EXCEPT ![vy] = b] EXCEPT ![vx] = a]
        /\ operation = <<"None">>
        /\ ctl = "fetch"
        /\ FrameBuffer_new
        /\ TimersAt(INS_INTERVAL)

NextAlu ==
    \/ FetchDecode
    \/ Execute

SpecAlu == InitAlu /\ [][NextAlu]_vars

----------------------------------------------------------------------------
(* The control loop on bounded ROMs. *)

\* the longest ROM, in instructions
MaxRomWords == 2

\* the instructions the ROMs are built from
RomWords ==
    { 238,      \* 00EE PopSubroutine
      4608,     \* 1200 Jump(0x200)
      8191,     \* 1FFF Jump(0xFFF)
      8706,     \* 2202 PushSubroutine(0x202)
      12288,    \* 3000 SkipEqualConstant(V0, 0)
      16384,    \* 4000 SkipNotEqualConstant(V0, 0)
      20496,    \* 5010 SkipEqualRegister(V0, V1)
      36880,    \* 9010 SkipNotEqualRegister(V0, V1)
      24577,    \* 6001 SetRegister(V0, 1)
      45569,    \* B201 JumpWithOffset(0x201)
      49151,    \* BFFF JumpWithOffset(0xFFF)
      57502,    \* E09E SkipIfPressed(V0)
      57505,    \* E0A1 SkipIfNotPressed(V0)
      61450 }   \* F00A GetKey(V0)

RECURSIVE RomsOfLen(_)
RomsOfLen(n) ==
    IF n = 0 THEN { << >> }
    ELSE { r \o WordBytes(w) : r \in RomsOfLen(n - 1), w \in RomWords }

Roms == UNION { RomsOfLen(n) : n \in 0 .. MaxRomWords }

Init == \E rom \in Roms : InitWith(rom)

Next ==
    \/ FetchDecode
    \/ Idle
    \/ Execute
    \/ SyncTimers
    \/ Tick

Spec == Init /\ [][Next]_vars

----------------------------------------------------------------------------
(* Loading: ROMs whose length is around the size of the program area are   *)
(* loaded and their first instruction is fetched and executed.             *)

\* how far the ROM lengths reach from the size of the program area
LoadSpan == 2

\* the size of the program area, 4096 - 0x200 bytes
PROGRAM_AREA == MEM_SIZE - ROM_START

\* a ROM of the given length: one instruction, then zero bytes
PaddedRom(word, len) ==
    [k \in 1 .. len |-> IF k <= 2 THEN WordBytes(word)[k] ELSE 0]

InitLoad ==
    \E word \in RomWords : \E d \in 0 .. 2 * LoadSpan :
        /\ MachineWith(PaddedRom(word, PROGRAM_AREA - LoadSpan + d))
        /\ TimersAt(INS_INTERVAL)

NextLoad ==
    \/ FetchDecode
    \/ Execute

SpecLoad == InitLoad /\ [][NextLoad]_vars

----------------------------------------------------------------------------
(* Subroutines: ROMs of calls and returns are loaded and run. *)

\* the longest ROM of calls and returns, in instructions
MaxCallWords == 3

\* the instructions these ROMs are built from
CallWords ==
    { 238,      \* 00EE PopSubroutine
      8706,     \* 2202 PushSubroutine(0x202)
      8708,     \* 2204 PushSubroutine(0x204)
      24577 }   \* 6001 SetRegister(V0, 1)

RECURSIVE CallRomsOfLen(_)
CallRomsOfLen(n) ==
    IF n = 0 THEN { << >> }
    ELSE { r \o WordBytes(w) : r \in CallRomsOfLen(n - 1), w \in CallWords }

InitCall == \E n \in 0 .. MaxCallWords : \E rom \in CallRomsOfLen(n) : InitWith(rom)

SpecCall == InitCall /\ [][Next]_vars

----------------------------------------------------------------------------
(* Skips: ROMs of register loads and skip opcodes are loaded and run. *)

\* the longest ROM of skips, in instructions
MaxSkipWords == 2

\* the instructions these ROMs are built from
SkipWords ==
    { 12288,    \* 3000 SkipEqualConstant(V0, 0)
      16384,    \* 4000 SkipNotEqualConstant(V0, 0)
      20496,    \* 5010 SkipEqualRegister(V0, V1)
      36880,    \* 9010 SkipNotEqualRegister(V0, V1)
      57502,    \* E09E SkipIfPressed(V0)
      57505,    \* E0A1 SkipIfNotPressed(V0)
      24577,    \* 6001 SetRegister(V0, 1)
      24592 }   \* 6010 SetRegister(V0, 16)

RECURSIVE SkipRomsOfLen(_)
SkipRomsOfLen(n) ==
    IF n = 0 THEN { << >> }
    ELSE { r \o WordBytes(w) : r \in SkipRomsOfLen(n - 1), w \in SkipWords }

InitSkip == \E n \in 0 .. MaxSkipWords : \E rom \in SkipRomsOfLen(n) : InitWith(rom)

SpecSkip == InitSkip /\ [][Next]_vars

----------------------------------------------------------------------------
(* Waiting for a key: ROMs with GetKey are loaded and run. *)

\* the longest ROM with GetKey, in instructions
MaxKeyWords == 2

\* the instructions these ROMs are built from
KeyWords ==
    { 61450,    \* F00A GetKey(V0)
      61706,    \* F10A GetKey(V1)
      24577,    \* 6001 SetRegister(V0, 1)
      4608 }    \* 1200 Jump(0x200)

RECURSIVE KeyRomsOfLen(_)
KeyRomsOfLen(n) ==
    IF n = 0 THEN { << >> }
    ELSE { r \o WordBytes(w) : r \in KeyRomsOfLen(n - 1), w \in KeyWords }

InitKey == \E n \in 0 .. MaxKeyWords : \E rom \in KeyRomsOfLen(n) : InitWith(rom)

SpecKey == InitKey /\ [][Next]_vars

----------------------------------------------------------------------------
(* Timers: ROMs that set the delay and sound timers and wait for a key     *)
(* are loaded and run.                                                     *)

\* the largest count loaded into a timer
MaxCount == 2

\* the opcodes that set the timers from V0: the delay timer, the sound
\* timer, or both
TimerSettings ==
    { <<61461>>,            \* F015 CopyRegisterToDelay(V0)
      <<61464>>,            \* F018 CopyRegisterToSound(V0)
      <<61461, 61464>> }

\* the bytes of a sequence of instructions
RECURSIVE WordsBytes(_)
WordsBytes(words) ==
    IF words = << >> THEN << >>
    ELSE WordBytes(Head(words)) \o WordsBytes(Tail(words))

\* the ROMs 60NN (SetRegister(V0, NN)), timer settings, F00A (GetKey(V0))
TimerRoms ==
    { WordsBytes(<<24576 + n>> \o setting \o <<61450>>) :
        n \in 1 .. MaxCount, setting \in TimerSettings }

InitTimer == \E rom \in TimerRoms : InitWith(rom)

SpecTimer == InitTimer /\ [][Next]_vars

\* the process has not ended
Running == ctl \in {"fetch", "execute", "sync"}

\* a call of the loop body of main() can be made: one is possible at every
\* position of a running process, up to the bound on the call stack
LoopEnabled ==
    /\ Running
    /\ (ctl = "execute" /\ operation[1] = "PushSubroutine") => Len(stack) < MaxStack

\* a call of the loop body of main()
LoopStep == FetchDecode \/ Idle \/ Execute \/ SyncTimers

\* SpecTimer with weak fairness of the loop body, WF_vars(LoopStep) with
\* its enabling condition written out, and of the passing of time: the
\* single thread of main() always runs its loop again, and wall-clock time
\* always advances
FairSpecTimer ==
    /\ SpecTimer
    /\ ([]<>(~LoopEnabled) \/ []<><<LoopStep>>_vars)
    /\ WF_vars(Tick)

----------------------------------------------------------------------------
(* Drawing: a ROM of one Display instruction followed by its sprite rows   *)
(* is run with V0 and V1 holding the coordinates, the index register at    *)
(* the sprite and the screen as earlier draws left it.                     *)

\* the largest sprite height drawn
MaxHeight == 2

\* the sprite rows: blank, leftmost bit, both ends, full
DrawRows == {0, 128, 129, 255}

\* the sprites of a given height
DrawSprites(h) == [1 .. h -> DrawRows]

\* the coordinates held by V0 and V1
DrawXs == {0, 56, 57, 60, 63, 64, 255}

DrawYs == {0, 30, 31, 32, 255}

\* the screens left by earlier draws: blank, a few pixels, every pixel
DrawScreens ==
    { {}, {0, 64, 63 + 31 * WIDTH}, {0, 1, 60, 61, 64, 30 * WIDTH}, 0 .. WIDTH * HEIGHT - 1 }

\* the ROM: Display(0, 1, height), then the sprite
DrawRom(sprite) == WordBytes(53264 + Len(sprite)) \o sprite

InitDraw ==
    \E h \in 0 .. MaxHeight : \E sprite \in DrawSprites(h) :
    \E x \in DrawXs : \E y \in DrawYs : \E screen \in DrawScreens :
        /\ bytes = load_rom_bytes(DrawRom(sprite))
        /\ pc = ROM_START
        /\ pc_end = set_end(Len(DrawRom(sprite)))
        /\ index = ROM_START + 2
        /\ stack = << >>
        /\ regs = [r \in 0 .. 15 |-> IF r = 0 THEN x ELSE IF r = 1 THEN y ELSE 0]
        /\ operation = <<"None">>
        /\ ctl = "fetch"
        /\ bit_buffer = screen
        /\ should_update = (screen # {})
        /\ pushes = IF screen = {} THEN 0 ELSE 1
        /\ TimersAt(INS_INTERVAL)

NextDraw ==
    \/ FetchDecode
    \/ Execute

SpecDraw == InitDraw /\ [][NextDraw]_vars

----------------------------------------------------------------------------
(* Refreshing the window: ROMs that clear the screen and draw are loaded   *)
(* and run.                                                                *)

\* the longest of these ROMs, in instructions
MaxScreenWords == 2

\* the instructions these ROMs are built from
ScreenWords ==
    { 224,      \* 00E0 ClearScreen
      41040,    \* A050 SetIndex(0x50), the first row of the font
      53249 }   \* D001 Display(V0, V0, 1)

RECURSIVE ScreenRomsOfLen(_)
ScreenRomsOfLen(n) ==
    IF n = 0 THEN { << >> }
    ELSE { r \o WordBytes(w) : r \in ScreenRomsOfLen(n - 1), w \in ScreenWords }

InitScreen ==
    \E n \in 0 .. MaxScreenWords : \E rom \in ScreenRomsOfLen(n) : InitWith(rom)

SpecScreen == InitScreen /\ [][Next]_vars

----------------------------------------------------------------------------
(* Index and jump arithmetic: a ROM of one instruction that computes with  *)
(* V0 and the index register is run for every value of V0, with the index  *)
(* register at the start, in the middle and around the end of memory.      *)

\* how far below the end of memory the sampled index values start
IndexSpan == 3

\* the instructions of these ROMs
IndexWords ==
    { 61491,    \* F033 ToDecimal(V0)
      61481,    \* F029 PointChar(V0)
      61470,    \* F01E AddToIndex(V0)
      45056,    \* B000 JumpWithOffset(0x000)
      45567,    \* B1FF JumpWithOffset(0x1FF)
      49151 }   \* BFFF JumpWithOffset(0xFFF)

\* the values of the index register
IndexValues == {0, 768, U16 - 1} \cup (MEM_SIZE - IndexSpan .. MEM_SIZE)

InitIndex ==
    \E word \in IndexWords : \E v \in 0 .. U8 - 1 :
    \E i \in IndexValues : \E f \in {0, 1} :
        /\ bytes = load_rom_bytes(WordBytes(word))
        /\ pc = ROM_START
        /\ pc_end = set_end(2)
        /\ index = i
        /\ stack = << >>
        /\ regs = [r \in 0 .. 15 |-> IF r = 0 THEN v
                                     ELSE IF r = 1 THEN 1
                                     ELSE IF r = 15 THEN f ELSE 0]
        /\ operation = <<"None">>
        /\ ctl = "fetch"
        /\ FrameBuffer_new
        /\ TimersAt(INS_INTERVAL)

NextIndex ==
    \/ FetchDecode
    \/ Execute

SpecIndex == InitIndex /\ [][NextIndex]_vars

----------------------------------------------------------------------------
(* Start-up: Emulator::init constructs the memory with Memory::new and     *)
(* then loads the ROM into it.  The ROMs are those of the loading          *)
(* specification, some of which do not fit the program area.               *)

\* Memory::new: every byte is zero, the counter is at 0x200 with end 0
Memory_new ==
    /\ bytes = << >>
    /\ pc = ROM_START
    /\ pc_end = 0
    /\ index = 0
    /\ stack = << >>

\* the state of Emulator::init between Memory::new and the load of the ROM
InitBoot ==
    /\ Memory_new
    /\ regs = [r \in 0 .. 15 |-> 0]
    /\ operation = <<"None">>
    /\ ctl = "constructed"
    /\ FrameBuffer_new
    /\ TimersAt(INS_INTERVAL)

\* Memory::load_rom_by_file, called by Emulator::init
LoadRom ==
    /\ ctl = "constructed"
    /\ \E word \in RomWords : \E d \in 0 .. 2 * LoadSpan :
          LET rom == PaddedRom(word, PROGRAM_AREA - LoadSpan + d)
          IN  /\ bytes' = load_rom_bytes(rom)
              /\ pc_end' = set_end(Len(rom))
    /\ ctl' = "fetch"
    /\ UNCHANGED <<pc, index, stack, regs, operation,
                   delay_timer, sound_timer, elapsed_delay, elapsed_sound,
                   elapsed_ins, pressed, beeps,
                   bit_buffer, should_update, pushes>>

NextBoot ==
    \/ LoadRom
    \/ FetchDecode
    \/ Execute

SpecBoot == InitBoot /\ [][NextBoot]_vars

----------------------------------------------------------------------------
(* The key pad: a ROM of one key opcode is run with V0 holding each pad    *)
(* value, for each of the sets of keys that may be down.                   *)

\* the instructions of these ROMs
PadWords ==
    { 57502,    \* E09E SkipIfPressed(V0)
      57505,    \* E0A1 SkipIfNotPressed(V0)
      61450 }   \* F00A GetKey(V0)

InitPad ==
    \E word \in PadWords : \E v \in 0 .. Len(KEYS) - 1 :
        /\ bytes = load_rom_bytes(WordBytes(word))
        /\ pc = ROM_START
        /\ pc_end = set_end(2)
        /\ index = 0
        /\ stack = << >>
        /\ regs = [r \in 0 .. 15 |-> IF r = 0 THEN v ELSE 0]
        /\ operation = <<"None">>
        /\ ctl = "fetch"
        /\ FrameBuffer_new
        /\ TimersAt(INS_INTERVAL)

NextPad ==
    \/ FetchDecode
    \/ Execute

SpecPad == InitPad /\ [][NextPad]_vars

----------------------------------------------------------------------------
(* Register loads and bitwise opcodes: a ROM of one CopyRegister, Or, And, *)
(* XOr or AddToRegister instruction is run on sampled register contents.   *)

\* the register values the bitwise opcodes are run on
LogicSamples == {0, 1, 15, 85, 170, 240, 255}

\* the last nibble of the 8XYN instructions run: CopyRegister, Or, And, XOr
LogicTypes == {0, 1, 2, 3}

\* the constants added by AddToRegister
AddConstants == {0, 1, 128, 255}

InitLogic ==
    \/ \E n \in LogicTypes : \E vx \in AluRegs : \E vy \in AluRegs :
       \E a \in LogicSamples : \E b \in LogicSamples : \E f \in 0 .. 1 :
          /\ bytes = load_rom_bytes(WordBytes(8 * 4096 + vx * 256 + vy * 16 + n))
          /\ pc = ROM_START
          /\ pc_end = set_end(2)
          /\ index = 0
          /\ stack = << >>
          /\ regs = [[[[r \in 0 .. 15 |-> 0] EXCEPT ![15] = f] EXCEPT ![vy] = b] EXCEPT ![vx] = a]
          /\ operation = <<"None">>
          /\ ctl = "fetch"
          /\ FrameBuffer_new
          /\ TimersAt(INS_INTERVAL)
    \/ \E vx \in AluRegs : \E nn \in AddConstants :
       \E a \in 0 .. U8 - 1 : \E f \in 0 .. 1 :
          /\ bytes = load_rom_bytes(WordBytes(7 * 4096 + vx * 256 + nn))
          /\ pc = ROM_START
          /\ pc_end = set_end(2)
          /\ index = 0
          /\ stack = << >>
          /\ regs = [[[r \in 0 .. 15 |-> 0] EXCEPT ![15] = f] EXCEPT ![vx] = a]
          /\ operation = <<"None">>
          /\ ctl = "fetch"
          /\ FrameBuffer_new
          /\ TimersAt(INS_INTERVAL)

NextLogic ==
    \/ FetchDecode
    \/ Execute

SpecLogic == InitLogic /\ [][NextLogic]_vars

----------------------------------------------------------------------------
(* Addresses: ROMs that move the index register and write through it are   *)
(* loaded and run.                                                         *)

\* the longest of these ROMs, in instructions
MaxAddressWords == 3

\* the instructions these ROMs are built from
AddressWords ==
    { 24586,    \* 600A SetRegister(V0, 10)
      45055,    \* AFFF SetIndexRegister(0xFFF)
      61470,    \* F01E AddToIndex(V0)
      61481,    \* F029 PointChar(V0)
      61491 }   \* F033 ToDecimal(V0)

RECURSIVE AddressRomsOfLen(_)
AddressRomsOfLen(n) ==
    IF n = 0 THEN { << >> }
    ELSE { r \o WordBytes(w) : r \in AddressRomsOfLen(n - 1), w \in AddressWords }

InitAddress ==
    \E n \in 0 .. MaxAddressWords : \E rom \in AddressRomsOfLen(n) : InitWith(rom)

SpecAddress == InitAddress /\ [][Next]_vars

----------------------------------------------------------------------------
(* Saving registers: ROMs that load V0 and V1, store V0..Vx, overwrite one *)
(* register and load V0..Vx back are loaded and run.                       *)

\* the highest register stored and loaded
MaxStored == 2

\* the instructions that overwrite a register between the store and the load
StoreClobbers ==
    { 24831,    \* 60FF SetRegister(V0, 0xFF)
      25087,    \* 61FF SetRegister(V1, 0xFF)
      25343 }   \* 62FF SetRegister(V2, 0xFF)

\* the ROMs 6011, 6122, A300, FX55 (StoreRegisterToMemory(X)), an overwrite,
\* FX65 (LoadRegisterFromMemory(X))
StoreRoms ==
    { WordsBytes(<<24593, 24866, 41728, 61525 + 256 * x, w, 61541 + 256 * x>>) :
        x \in 0 .. MaxStored, w \in StoreClobbers }

InitStore == \E rom \in StoreRoms : InitWith(rom)

SpecStore == InitStore /\ [][Next]_vars

----------------------------------------------------------------------------
(* Pacing: straight-line ROMs of register loads that set no timer are      *)
(* loaded and run.  The timers stay at 0, so last_delay is never refreshed *)
(* and elapsed_delay is the time since Emulator::init.                     *)

\* the longest of these ROMs, in instructions
MaxPaceWords == 3

RECURSIVE PaceRomsOfLen(_)
PaceRomsOfLen(n) ==
    IF n = 0 THEN << >>
    ELSE PaceRomsOfLen(n - 1) \o WordBytes(24576 + n)    \* 600n SetRegister(V0, n)

InitPace == \E n \in 0 .. MaxPaceWords : InitWith(PaceRomsOfLen(n))

SpecPace == InitPace /\ [][Next]_vars

----------------------------------------------------------------------------
(* Properties of the decoder, checked under SpecDecode. *)

\* the instruction stored at the start of the program area
Fetched == MemGet(bytes, ROM_START) * 256 + MemGet(bytes, ROM_START + 1)

FieldNNN(w) == w % 4096

FieldX(w) == (w \div 256) % 16

FieldY(w) == (w \div 16) % 16

FieldNN(w) == w % 256

FieldN(w) == w % 16

NotInTable == <<"NotInTable">>

\* family 0x8 of the canonical CHIP-8 table
TableAlu(w) ==
    CASE FieldN(w) = 0 -> <<"CopyRegister", FieldX(w), FieldY(w)>>
      [] FieldN(w) = 1 -> <<"Or", FieldX(w), FieldY(w)>>
      [] FieldN(w) = 2 -> <<"And", FieldX(w), FieldY(w)>>
      [] FieldN(w) = 3 -> <<"XOr", FieldX(w), FieldY(w)>>
      [] FieldN(w) = 4 -> <<"Add", FieldX(w), FieldY(w)>>
      [] FieldN(w) = 5 -> <<"SubtractForward", FieldX(w), FieldY(w)>>
      [] FieldN(w) = 6 -> <<"RightShift", FieldX(w), FieldY(w)>>
      [] FieldN(w) = 7 -> <<"SubtractBackward", FieldX(w), FieldY(w)>>
      [] FieldN(w) = 14 -> <<"LeftShift", FieldX(w), FieldY(w)>>
      [] OTHER -> NotInTable

\* family 0xF of the canonical CHIP-8 table
TableMisc(w) ==
    CASE FieldNN(w) = 7 -> <<"CopyDelayToRegister", FieldX(w)>>
      [] FieldNN(w) = 10 -> <<"GetKey", FieldX(w)>>
      [] FieldNN(w) = 21 -> <<"CopyRegisterToDelay", FieldX(w)>>
      [] FieldNN(w) = 24 -> <<"CopyRegisterToSound", FieldX(w)>>
      [] FieldNN(w) = 30 -> <<"AddToIndex", FieldX(w)>>
      [] FieldNN(w) = 41 -> <<"PointChar", FieldX(w)>>
      [] FieldNN(w) = 51 -> <<"ToDecimal", FieldX(w)>>
      [] FieldNN(w) = 85 -> <<"StoreRegisterToMemory", FieldX(w)>>
      [] FieldNN(w) = 101 -> <<"LoadRegisterFromMemory", FieldX(w)>>
      [] OTHER -> NotInTable

\* the canonical CHIP-8 table: the opcode of a 16-bit pattern, with the
\* operands at their fixed bit positions, or NotInTable
CanonicalOp(w) ==
    CASE w = 224 -> <<"ClearScreen">>
      [] w = 238 -> <<"PopSubroutine">>
      [] w \div 4096 = 1 -> <<"Jump", FieldNNN(w)>>
      [] w \div 4096 = 2 -> <<"PushSubroutine", FieldNNN(w)>>
      [] w \div 4096 = 3 -> <<"SkipEqualConstant", FieldX(w), FieldNN(w)>>
      [] w \div 4096 = 4 -> <<"SkipNotEqualConstant", FieldX(w), FieldNN(w)>>
      [] w \div 4096 = 5 /\ FieldN(w) = 0 -> <<"SkipEqualRegister", FieldX(w), FieldY(w)>>
      [] w \div 4096 = 6 -> <<"SetRegister", FieldX(w), FieldNN(w)>>
      [] w \div 4096 = 7 -> <<"AddToRegister", FieldX(w), FieldNN(w)>>
      [] w \div 4096 = 8 -> TableAlu(w)
      [] w \div 4096 = 9 /\ FieldN(w) = 0 -> <<"SkipNotEqualRegister", FieldX(w), FieldY(w)>>
      [] w \div 4096 = 10 -> <<"SetIndexRegister", FieldNNN(w)>>
      [] w \div 4096 = 11 -> <<"JumpWithOffset", FieldNNN(w)>>
      [] w \div 4096 = 12 -> <<"Random", FieldX(w), FieldNN(w)>>
      [] w \div 4096 = 13 -> <<"Display", FieldX(w), FieldY(w), FieldN(w)>>
      [] w \div 4096 = 14 /\ FieldNN(w) = 158 -> <<"SkipIfPressed", FieldX(w)>>
      [] w \div 4096 = 14 /\ FieldNN(w) = 161 -> <<"SkipIfNotPressed", FieldX(w)>>
      [] w \div 4096 = 15 -> TableMisc(w)
      [] OTHER -> NotInTable

\* the instruction has been fetched and decoded
Decoded == ctl # "fetch" /\ operation # <<"None">>

\* C1: every instruction whose pattern is in the canonical CHIP-8 table
\* decodes to the variant of that pattern with its operands taken from the
\* fixed bit positions (address bits 0-11, X bits 8-11, Y bits 4-7, NN bits
\* 0-7, N bits 0-3); family 0x8 picks its operation from the lowest nibble.
C1_DecodeCanonical ==
    /\ (Decoded /\ CanonicalOp(Fetched) # NotInTable) => operation = CanonicalOp(Fetched)
    /\ (Decoded /\ Fetched = 224) => operation = <<"ClearScreen">>
    /\ (Decoded /\ Fetched = 238) => operation = <<"PopSubroutine">>
    /\ (Decoded /\ Fetched = 6844) => operation = <<"Jump", 2748>>
    /\ (Decoded /\ Fetched = 27143) => operation = <<"SetRegister", 10, 7>>
    /\ (Decoded /\ Fetched = 32788) => operation = <<"Add", 0, 1>>

\* 0x6A07 has been decoded to SetRegister(0xA, 0x07)
C1_Witness == Decoded /\ Fetched = 27143 /\ operation = <<"SetRegister", 10, 7>>

OpCodeNames ==
    { "ClearScreen", "Jump", "SetRegister", "AddToRegister", "SetIndexRegister",
      "Display", "PushSubroutine", "PopSubroutine", "SkipEqualConstant",
      "SkipNotEqualConstant", "SkipEqualRegister", "SkipNotEqualRegister",
      "CopyRegister", "Or", "And", "XOr", "Add", "SubtractForward",
      "SubtractBackward", "LeftShift", "RightShift", "JumpWithOffset", "Random",
      "SkipIfPressed", "SkipIfNotPressed", "CopyDelayToRegister",
      "CopyRegisterToDelay", "CopyRegisterToSound", "AddToIndex", "GetKey",
      "PointChar", "ToDecimal", "LoadRegisterFromMemory", "StoreRegisterToMemory",
      "Unimplemented" }

\* C2: decoding never fails: for each of the 65536 instructions no cursor
\* guard panics and decode_raw returns an opcode.
C2_DecodeNeverPanics ==
    /\ ctl # "panicked"
    /\ operation # Panic
    /\ (ctl # "fetch" => operation[1] \in OpCodeNames)

\* 0x3FFF, whose two operands move the cursor to its end, has been decoded
C2_Witness == Decoded /\ Fetched = 16383 /\ operation = <<"SkipEqualConstant", 15, 255>>

\* C3: every pattern the canonical CHIP-8 table does not define decodes to
\* Unimplemented.
C3_UnknownIsUnimplemented ==
    (Decoded /\ CanonicalOp(Fetched) = NotInTable) => operation = Unimplemented

----------------------------------------------------------------------------
(* Properties of the ALU opcodes, checked under SpecAlu. *)

\* the opcode named tag is about to be executed
Executing(tag) == ctl = "execute" /\ operation[1] = tag

\* the opcode named tag has just been executed
Executed(tag) == ctl = "sync" /\ operation[1] = tag

\* the registers other than dest and VF keep their values
OthersKept(dest) == \A r \in 0 .. 15 : r \notin {dest, 15} => regs'[r] = regs[r]

\* C4: Add(dest, source) with dest # 0xF leaves dest = (dest + source) mod 256
\* and VF = 1 if the unwrapped sum is above 255, else 0.
C4_Add ==
    [][(Executing("Add") /\ operation[2] # 15) =>
          LET sum == regs[operation[2]] + regs[operation[3]]
          IN  /\ regs'[operation[2]] = sum % 256
              /\ regs'[15] = IF sum > 255 THEN 1 ELSE 0]_vars

\* 0xFF + 0x01 has left result 0x00 and flag 1
C4_Witness ==
    /\ Executed("Add") /\ operation[2] = 0 /\ operation[3] = 1
    /\ regs[0] = 0 /\ regs[1] = 1 /\ regs[15] = 1

\* C5: SubtractForward(dest, source) with dest # 0xF leaves dest = (dest -
\* source) mod 256 and VF = 1 iff dest >= source; SubtractBackward leaves
\* dest = (source - dest) mod 256 and VF = 1 iff source >= dest; equal
\* operands give result 0 and flag 1.
C5_Subtract ==
    [][/\ (Executing("SubtractForward") /\ operation[2] # 15) =>
              LET d == regs[operation[2]]
                  s == regs[operation[3]]
              IN  /\ regs'[operation[2]] = (d - s + 256) % 256
                  /\ regs'[15] = IF d >= s THEN 1 ELSE 0
                  /\ (d = s => regs'[operation[2]] = 0 /\ regs'[15] = 1)
       /\ (Executing("SubtractBackward") /\ operation[2] # 15) =>
              LET d == regs[operation[2]]
                  s == regs[operation[3]]
              IN  /\ regs'[operation[2]] = (s - d + 256) % 256
                  /\ regs'[15] = IF s >= d THEN 1 ELSE 0
                  /\ (d = s => regs'[operation[2]] = 0 /\ regs'[15] = 1)]_vars

\* SubtractBackward of dest 2 from source 1 has wrapped to 0xFF with flag 0
C5_Witness ==
    /\ Executed("SubtractBackward") /\ operation[2] = 0 /\ operation[3] = 1
    /\ regs[0] = 255 /\ regs[1] = 1 /\ regs[15] = 0

\* C6: LeftShift(dest) with dest # 0xF sets VF to bit 7 of the old dest and
\* dest to (dest * 2) mod 256; RightShift sets VF to bit 0 of the old dest
\* and dest to dest div 2; the second register operand plays no part.
C6_Shift ==
    [][/\ (Executing("LeftShift") /\ operation[2] # 15) =>
              /\ regs'[operation[2]] = (regs[operation[2]] * 2) % 256
              /\ regs'[15] = regs[operation[2]] \div 128
              /\ OthersKept(operation[2])
       /\ (Executing("RightShift") /\ operation[2] # 15) =>
              /\ regs'[operation[2]] = regs[operation[2]] \div 2
              /\ regs'[15] = regs[operation[2]] % 2
              /\ OthersKept(operation[2])]_vars

\* RightShift of 0x03 has left result 1 and flag 1, beside a second operand
\* of another value
C6_Witness ==
    /\ Executed("RightShift") /\ operation[2] = 0 /\ operation[3] = 1
    /\ regs[0] = 1 /\ regs[15] = 1 /\ regs[1] = 128

\* the flag of the five flag-setting opcodes, from the operand values
FlagOf(tag, d, s) ==
    CASE tag = "Add" -> IF d + s > 255 THEN 1 ELSE 0
      [] tag = "SubtractForward" -> IF d >= s THEN 1 ELSE 0
      [] tag = "SubtractBackward" -> IF s >= d THEN 1 ELSE 0
      [] tag = "LeftShift" -> d \div 128
      [] tag = "RightShift" -> d % 2

FlagOps == {"Add", "SubtractForward", "SubtractBackward", "LeftShift", "RightShift"}

\* C7: when VF is the destination or the source of one of the five
\* flag-setting opcodes, VF afterwards holds the flag computed from the
\* operand values held before the instruction.
C7_FlagLast ==
    [][(ctl = "execute" /\ operation[1] \in FlagOps
            /\ (operation[2] = 15 \/ operation[3] = 15)) =>
          regs'[15] = FlagOf(operation[1], regs[operation[2]], regs[operation[3]])]_vars

\* LeftShift of VF itself, VF still holding a flag and not twice its old value
C7_Witness ==
    /\ Executed("LeftShift") /\ operation[2] = 15 /\ regs[15] = 1

----------------------------------------------------------------------------
(* Properties of the program counter, checked under Spec. *)

\* C8: between instructions, once a ROM of programLength > 0 bytes is
\* loaded, the program counter is even and 0x200 <= pc < loadEnd.
C8_PcInRange ==
    (ctl = "fetch" /\ pc_end > ROM_START) =>
        (pc % 2 = 0 /\ ROM_START <= pc /\ pc < pc_end)

\* a step that advanced the program counter by one instruction: the
\* per-fetch advance or the advance of a skip opcode
SkipOps ==
    { "SkipEqualConstant", "SkipNotEqualConstant", "SkipEqualRegister",
      "SkipNotEqualRegister", "SkipIfPressed", "SkipIfNotPressed" }

Advanced ==
    /\ pc' = pc + 2
    /\ ctl = "fetch" \/ (ctl = "execute" /\ operation[1] \in SkipOps)

\* C9: the run ends exactly when the program counter would advance beyond
\* loadEnd: an advance beyond loadEnd ends the run, the run is not ended
\* before, and an instruction stored below loadEnd that control reaches is
\* fetched and executed.
C9_EndsExactlyAtLoadEnd ==
    [][/\ (Advanced /\ pc' > pc_end) => ctl' = "exited"
       /\ ctl' = "exited" => pc' > pc_end
       /\ (ctl = "fetch" /\ ctl' \notin {"fetch", "sync"} /\ pc + 1 < pc_end) =>
              ctl' = "execute"]_vars

\* C10: the run never crashes on its program counter: next_instruction
\* reads no byte outside 0..4095, whatever target a jump or return set.
C10_FetchInBounds ==
    [][ctl = "fetch" => ctl' # "panicked"]_vars

----------------------------------------------------------------------------
(* Properties of loading, checked under SpecLoad. *)

\* the loaded ROM was longer than the program area: set_end put the load
\* end past the end of the memory
TooLarge == pc_end > MEM_SIZE

\* C11: loading a program longer than the program area (3584 bytes) fails
\* explicitly: the start-up is aborted and no instruction is fetched or
\* executed afterwards.
C11_LoadFailsExplicitly ==
    TooLarge => (operation = <<"None">> /\ ctl \notin {"execute", "sync"})

----------------------------------------------------------------------------
(* Properties of calls and returns, checked under SpecCall. *)

\* execute_ins runs the opcode named tag in this step
Runs(tag) == Executing(tag) /\ ctl' # "execute"

\* C12: calls and returns are last-in first-out.  The instruction fetched
\* at address a is executed with pc = a + 2; PushSubroutine(addr) pushes
\* that a + 2 and continues at addr; PopSubroutine on a non-empty stack
\* continues at the most recently pushed address and removes it; no other
\* step changes the stack, so its depth is the number of calls minus the
\* number of returns.
C12_CallReturnLifo ==
    [][/\ (ctl = "fetch" /\ ctl' = "execute") => pc' = pc + 2
       /\ Runs("PushSubroutine") =>
              /\ stack' = Append(stack, pc)
              /\ pc' = operation[2]
              /\ ctl' = "sync"
       /\ (Runs("PopSubroutine") /\ stack # << >>) =>
              /\ pc' = stack[Len(stack)]
              /\ stack' = SubSeq(stack, 1, Len(stack) - 1)
              /\ ctl' = "sync"
       /\ ~(Runs("PushSubroutine") \/ Runs("PopSubroutine")) => stack' = stack]_vars

\* a return from the inner of two nested calls: the outer return address
\* is still on the stack and differs from the address resumed at
C12_Witness ==
    /\ Executed("PopSubroutine")
    /\ Len(stack) = 1
    /\ pc # stack[1]

\* C13: PopSubroutine on an empty stack is fatal: the step ends in the
\* panicked state with the program counter and the stack as they were, and
\* no step is ever taken from a panicked state.
C13_EmptyPopFatal ==
    [][/\ (Runs("PopSubroutine") /\ stack = << >>) =>
              /\ ctl' = "panicked"
              /\ pc' = pc
              /\ stack' = stack
       /\ ctl # "panicked"]_vars

\* a return with nothing on the stack has ended the run
C13_Witness ==
    /\ ctl = "panicked"
    /\ operation = <<"PopSubroutine">>
    /\ stack = << >>

----------------------------------------------------------------------------
(* Properties of the skip opcodes, checked under SpecSkip. *)

\* the key numbered v of the pad is among the keys that are down
KeyIsDown(v, down) == v < Len(KEYS) /\ KEYS[v + 1] \in down

\* the condition of the skip opcode being executed, for the keys that are down
SkipCondition(down) ==
    CASE operation[1] = "SkipEqualConstant" -> regs[operation[2]] = operation[3]
      [] operation[1] = "SkipNotEqualConstant" -> regs[operation[2]] # operation[3]
      [] operation[1] = "SkipEqualRegister" -> regs[operation[2]] = regs[operation[3]]
      [] operation[1] = "SkipNotEqualRegister" -> regs[operation[2]] # regs[operation[3]]
      [] operation[1] = "SkipIfPressed" -> KeyIsDown(regs[operation[2]], down)
      [] operation[1] = "SkipIfNotPressed" -> ~KeyIsDown(regs[operation[2]], down)
      [] OTHER -> FALSE

\* C14: a skip opcode fetched at a (so executed with pc = a + 2) leaves
\* pc at a + 4 when its condition is true and at a + 2 otherwise, the run
\* goes on (or ends at the load end) and no register, memory byte, timer,
\* index or stack entry changes.
C14_SkipDistance ==
    [][\A tag \in SkipOps : Runs(tag) =>
          /\ pc' = IF SkipCondition(pressed') THEN pc + 2 ELSE pc
          /\ ctl' \in {"sync", "exited"}
          /\ UNCHANGED <<regs, bytes, stack, index, delay_timer, sound_timer>>]_vars

----------------------------------------------------------------------------
(* Properties of GetKey, checked under SpecKey. *)

\* the 16-bit instruction stored at an address
InstructionAt(a) == MemGet(bytes, a) * 256 + MemGet(bytes, a + 1)

\* C15: GetKey retries without advancing.  Every fetch decodes the
\* instruction at pc and leaves pc two bytes after it; when GetKey is
\* executed and no key is down, pc goes back to the address of that GetKey,
\* whose bytes are still there, no register changes and the loop goes on,
\* so the same GetKey is fetched again for as long as no key is down.
C15_GetKeyRetries ==
    [][/\ (ctl = "fetch" /\ ctl' = "execute") =>
              /\ operation' = decode_raw(InstructionAt(pc))
              /\ pc' = pc + 2
       /\ (Runs("GetKey") /\ pressed' = {}) =>
              /\ pc' = pc - 2
              /\ decode_raw(InstructionAt(pc')) = operation
              /\ regs' = regs
              /\ bytes' = bytes
              /\ ctl' = "sync"]_vars

\* GetKey at the second instruction was executed with no key down and the
\* program counter is back at it
C15_Witness ==
    /\ Executed("GetKey")
    /\ pressed = {}
    /\ pc = ROM_START + 2
    /\ decode_raw(InstructionAt(pc)) = operation

\* C16: GetKey completes only with a key stored: when the program counter
\* is left past a GetKey, its register holds the pad value (0..15) of a
\* key that was down in that cycle.
C16_GetKeyStoresKey ==
    [][(Runs("GetKey") /\ pc' = pc) =>
          \E key \in pressed' :
              /\ key_to_u8(key) \in 0 .. 15
              /\ regs'[operation[2]] = key_to_u8(key)]_vars

----------------------------------------------------------------------------
(* Properties of the timers and the control loop, checked under SpecTimer  *)
(* and, for what must eventually happen, under FairSpecTimer.              *)

\* the process has ended
Ended == ctl \in {"exited", "panicked"}

\* C17: the control loop never blocks.  An iteration in which can_execute
\* fails goes on to sync_timers, an executed GetKey goes on to
\* sync_timers whether or not a key was down, sync_timers is followed by
\* the next iteration, and while a GetKey is pending a timer that is
\* running eventually reaches 0 (unless the process ends first).
C17_LoopNeverBlocks ==
    /\ [][/\ (ctl = "fetch" /\ ~can_execute /\ ctl' # "fetch") => ctl' = "sync"
          /\ Runs("GetKey") => ctl' = "sync"
          /\ (ctl = "sync" /\ ctl' # "sync") => ctl' = "fetch"]_vars
    /\ [](operation[1] = "GetKey" /\ delay_timer > 0 => <>(delay_timer = 0 \/ Ended))
    /\ [](operation[1] = "GetKey" /\ sound_timer > 0 => <>(sound_timer = 0 \/ Ended))

\* the delay timer has run down to 0 while GetKey, executed with no key
\* down, is still pending
C17_Witness ==
    /\ operation[1] = "GetKey"
    /\ pressed = {}
    /\ ctl = "fetch"
    /\ pc = ROM_START + 4
    /\ delay_timer = 0
    /\ elapsed_delay = 0

\* a call of sync_timers
SyncStep == ctl = "sync" /\ ctl' = "fetch"

\* the call of Timer::sync on the delay timer reported a decrement:
\* sync_timers set last_delay to the current time
DelayReported == SyncStep /\ elapsed_delay # 0 /\ elapsed_delay' = 0

\* the same for the sound timer and last_sound
SoundReported == SyncStep /\ elapsed_sound # 0 /\ elapsed_sound' = 0

\* C18: in sync_timers a call of Timer::sync that reports a decrement
\* lowers the count of its timer by exactly 1, whatever time has elapsed;
\* a call that reports none leaves the count as it was, whatever happens
\* to the other timer; a call at count 0 reports none; no count is ever
\* below 0.
C18_TimerTicksByOne ==
    [][SyncStep =>
          /\ DelayReported => delay_timer' = delay_timer - 1
          /\ ~DelayReported => delay_timer' = delay_timer
          /\ delay_timer = 0 => ~DelayReported
          /\ SoundReported => sound_timer' = sound_timer - 1
          /\ ~SoundReported => sound_timer' = sound_timer
          /\ sound_timer = 0 => ~SoundReported
          /\ delay_timer' >= 0 /\ sound_timer' >= 0]_vars

\* C19: a timer set to a count above 0 and synchronised again and again
\* while time advances eventually reaches 0 (unless the process ends
\* first), and a call of Timer::sync at count 0 leaves the count at 0 and
\* reports no decrement.
C19_TimerReachesZero ==
    /\ [](delay_timer > 0 => <>(delay_timer = 0 \/ Ended))
    /\ [](sound_timer > 0 => <>(sound_timer = 0 \/ Ended))
    /\ [][SyncStep =>
             /\ delay_timer = 0 => (delay_timer' = 0 /\ elapsed_delay' = elapsed_delay)
             /\ sound_timer = 0 => (sound_timer' = 0 /\ elapsed_sound' = elapsed_sound)]_vars

\* both timers were set to 2, have run down to 0, and more than a tick
\* interval has passed since the last decrement of either
C19_Witness ==
    /\ regs[0] = 2
    /\ InstructionAt(ROM_START + 2) = 61461
    /\ InstructionAt(ROM_START + 4) = 61464
    /\ operation[1] = "GetKey"
    /\ ctl = "fetch"
    /\ delay_timer = 0 /\ sound_timer = 0
    /\ elapsed_delay > TICK_INTERVAL /\ elapsed_delay < MaxElapsed
    /\ elapsed_sound > TICK_INTERVAL /\ elapsed_sound < MaxElapsed

\* C20: whenever a loop iteration ends with the sound timer above 0,
\* Sound::beep has been called.
C20_BeepWhileSounding ==
    (ctl = "fetch" /\ sound_timer > 0) => beeps > 0

----------------------------------------------------------------------------
(* Properties of drawing, checked under SpecDraw. *)

\* the sprite rows a Display instruction reads
SpriteRows == [k \in 1 .. operation[4] |-> MemGet(bytes, index + k - 1)]

\* the cell at a column and a row of the screen
Cell(column, row) == row * WIDTH + column

\* C21: Display(regX, regY, height) plots with its top-left corner at
\* column V[regX] mod 64, row V[regY] mod 32: for every value of the two
\* registers the first bit of the sprite is XOR-ed into that cell.
C21_OriginWraps ==
    [][(Runs("Display") /\ operation[4] >= 1) =>
          LET origin == Cell(regs[operation[2]] % WIDTH, regs[operation[3]] % HEIGHT)
              first == SpriteBit(SpriteRows[1], 0) = 1
          IN  (origin \in bit_buffer') = ((origin \in bit_buffer) # first)]_vars

\* the cells of the grid covered by a sprite of the given height whose
\* top-left corner is at column x, row y
Covered(x, y, height) ==
    { Cell(x + j, y + i) : <<i, j>> \in
        { c \in (0 .. height - 1) \X (0 .. 7) : x + c[2] < WIDTH /\ y + c[1] < HEIGHT } }

\* the cells whose value differs between the two bit buffers
Differing(a, b) == (a \ b) \cup (b \ a)

\* C22: a sprite reaching past the right or the bottom edge is clipped: a
\* Display whose corner is on the grid changes no cell other than those the
\* sprite covers on the grid, and it never reaches outside the framebuffer.
C22_Clipped ==
    [][(/\ Runs("Display")
        /\ regs[operation[2]] < WIDTH
        /\ regs[operation[3]] < HEIGHT) =>
          /\ ctl' # "panicked"
          /\ Differing(bit_buffer, bit_buffer') \subseteq
                 Covered(regs[operation[2]], regs[operation[3]], operation[4])]_vars

\* C23: when a Display has drawn, VF is 1 if the draw turned at least one
\* set pixel off and 0 otherwise, also for a sprite of height 0 or of blank
\* rows, and no other register has changed.
C23_CollisionFlag ==
    [][(Runs("Display") /\ ctl' = "sync") =>
          regs' = [regs EXCEPT ![15] = IF bit_buffer \ bit_buffer' # {} THEN 1 ELSE 0]]_vars

\* a draw that turned pixels on and pixels off and reported the collision
C23_Witness ==
    /\ Executed("Display")
    /\ regs[15] = 1
    /\ bit_buffer # {}
    /\ operation[4] >= 1

\* the sprite has at least one set bit
HasSetBit(sprite) ==
    \E k \in 1 .. Len(sprite) : \E j \in 0 .. 7 : SpriteBit(sprite[k], j) = 1

\* the result of drawing the sprite of this Display step once more, at the
\* same coordinates, on the screen the step leaves
SecondDraw == paint(bit_buffer', regs[operation[2]], regs[operation[3]], SpriteRows)

\* a Display that draws a sprite lying on the grid
DrawsOnGrid ==
    /\ Runs("Display")
    /\ ctl' = "sync"
    /\ regs[operation[2]] + 7 < WIDTH
    /\ regs[operation[3]] + operation[4] <= HEIGHT

\* C24 as stated: drawing the same sprite twice at the same coordinates
\* restores the framebuffer, and the second draw reports a collision
\* whenever the sprite has at least one set bit.
C24_SecondDrawCollides ==
    [][DrawsOnGrid =>
          /\ SecondDraw.bit_buffer = bit_buffer
          /\ HasSetBit(SpriteRows) => SecondDraw.vf]_vars

\* C24, amended: drawing the same sprite twice at the same coordinates
\* restores the framebuffer, and the second draw reports a collision
\* exactly when the first draw turned at least one pixel on.
C24_DrawTwiceRestores ==
    [][DrawsOnGrid =>
          /\ ~SecondDraw.panics
          /\ SecondDraw.bit_buffer = bit_buffer
          /\ SecondDraw.vf <=> (bit_buffer' \ bit_buffer # {})]_vars

\* a draw that turned pixels off and none on, so that a second draw of the
\* same sprite collides with nothing
C24_Witness ==
    /\ Executed("Display")
    /\ operation[4] >= 1
    /\ regs[0] + 7 < WIDTH
    /\ regs[1] + operation[4] <= HEIGHT
    /\ regs[15] = 1
    /\ HasSetBit([k \in 1 .. operation[4] |-> MemGet(bytes, index + k - 1)])
    /\ ~paint(bit_buffer, regs[0], regs[1],
              [k \in 1 .. operation[4] |-> MemGet(bytes, index + k - 1)]).vf

----------------------------------------------------------------------------
(* Properties of the window refresh, checked under SpecScreen. *)

\* C25: the framebuffer is pushed to the window only when its contents
\* changed since the last push: once it has been pushed, a step pushes it
\* again only if that step's ClearScreen or paint changed a cell.
C25_PushOnlyOnChange ==
    [][(pushes >= 1 /\ pushes' > pushes) => bit_buffer' # bit_buffer]_vars

----------------------------------------------------------------------------
(* Properties of the index and jump arithmetic, checked under SpecIndex. *)

\* the three decimal digits of a byte, most significant first
ThreeDigits(v) == <<v \div 100, (v \div 10) % 10, v % 10>>

\* C26: ToDecimal(register) writes exactly three bytes for every register
\* value v: the hundreds at memory[I], the tens at memory[I + 1] and the
\* units at memory[I + 2], zero-padded; no other byte of memory and no
\* register changes.
C26_ThreeDigits ==
    [][(Runs("ToDecimal") /\ index + 2 < MEM_SIZE) =>
          /\ \A a \in 0 .. MEM_SIZE - 1 :
                MemGet(bytes', a) =
                    IF a \in index .. index + 2
                    THEN ThreeDigits(regs[operation[2]])[a - index + 1]
                    ELSE MemGet(bytes, a)
          /\ regs' = regs
          /\ index' = index]_vars

----------------------------------------------------------------------------
(* Properties of the start-up, checked under SpecBoot. *)

\* C27: the 80 bytes of the font are at 0x50..0x9F as soon as the memory is
\* constructed, whether or not a program has been loaded, and they are
\* still there after load_rom.
C27_FontPresent ==
    \A k \in 1 .. Len(DEFAULT_FONT) :
        MemGet(bytes, FONT_START + k - 1) = DEFAULT_FONT[k]

\* everything but the index register and the loop position is unchanged
OnlyIndexChanges ==
    UNCHANGED <<bytes, pc, pc_end, stack, regs, operation,
                delay_timer, sound_timer, elapsed_delay, elapsed_sound,
                elapsed_ins, pressed, beeps, bit_buffer, should_update, pushes>>

\* C28: PointChar(register) with a register value digit in 0..15 sets the
\* index register to 0x50 + digit * 5, where the five rows of that digit's
\* glyph are, and changes nothing else.
C28_PointChar ==
    [][(Runs("PointChar") /\ regs[operation[2]] <= 15) =>
          /\ index' = FONT_START + regs[operation[2]] * 5
          /\ \A k \in 1 .. 5 :
                MemGet(bytes, index' + k - 1) = DEFAULT_FONT[regs[operation[2]] * 5 + k]
          /\ ctl' = "sync"
          /\ OnlyIndexChanges]_vars

\* the index register points at the glyph of F, the last of the font
C28_Witness ==
    /\ Executed("PointChar")
    /\ regs[operation[2]] = 15
    /\ index = FONT_START + 75

\* C29: JumpWithOffset(address) continues at address + V0, with register 0
\* whatever the address, for every 12-bit address and every value of V0,
\* and the sum is not reduced to 12 bits; the registers and the stack are
\* unchanged.
C29_JumpWithOffset ==
    [][Runs("JumpWithOffset") =>
          /\ pc' = operation[2] + regs[0]
          /\ regs' = regs
          /\ stack' = stack
          /\ ctl' = "sync"]_vars

\* a jump from the last address of the memory by 255: the target is past
\* 0xFFF
C29_Witness ==
    /\ Executed("JumpWithOffset")
    /\ operation[2] = MEM_SIZE - 1
    /\ regs[0] = U8 - 1
    /\ pc = MEM_SIZE + U8 - 2

\* C30: AddToIndex(register) adds the register's value to the index
\* register, and what it does to VF is a setting of the emulator: with the
\* quirk off VF is unchanged, with the quirk on VF is 1 if the sum is past
\* 0xFFF and 0 if not.  The emulator takes no setting, so the one behaviour
\* it has is held against both.
C30_AddToIndexQuirk ==
    [][(Runs("AddToIndex") /\ index + regs[operation[2]] < U16) =>
          \A quirk \in BOOLEAN :
              /\ index' = index + regs[operation[2]]
              /\ regs' = IF quirk
                         THEN [regs EXCEPT ![15] =
                                 IF index + regs[operation[2]] > MEM_SIZE - 1 THEN 1 ELSE 0]
                         ELSE regs]_vars

----------------------------------------------------------------------------
(* Properties of the key pad, checked under SpecPad. *)

\* a key that the layout 1234/QWER/ASDF/ZXCV gives the pad value v is down
LayoutKeyDown(v, down) == \E key \in down : wait_for_key(key) = v

\* C31: the key opcodes follow the layout 1234/QWER/ASDF/ZXCV ->
\* 123C/456D/789E/A0BF.  SkipIfPressed on pad value n skips exactly when
\* the key the layout gives n is down and SkipIfNotPressed exactly when it
\* is not; GetKey, when a key of the layout is down, stores the pad value
\* the layout gives a key that is down.
C31_PadLayout ==
    [][/\ Runs("SkipIfPressed") =>
              ((pc' = pc + 2) <=> LayoutKeyDown(regs[operation[2]], pressed'))
       /\ Runs("SkipIfNotPressed") =>
              ((pc' = pc + 2) <=> ~LayoutKeyDown(regs[operation[2]], pressed'))
       /\ (Runs("GetKey") /\ \E key \in pressed' : wait_for_key(key) >= 0) =>
              \E key \in pressed' :
                  /\ wait_for_key(key) >= 0
                  /\ regs'[operation[2]] = wait_for_key(key)]_vars

\* C37: the two key tables of the executor are inverse to each other: the
\* key that makes SkipIfPressed skip for pad value n is stored by GetKey
\* as n, for every n in 0..15.
C37_KeyTablesInverse ==
    [][\A n \in 0 .. Len(KEYS) - 1 :
          (Runs("GetKey") /\ pressed' = {KEYS[n + 1]}) =>
              regs'[operation[2]] = n]_vars

----------------------------------------------------------------------------
(* Properties of the nibble extraction, checked under SpecDecode. *)

\* the starts n and lengths m of the fields that lie within the four digits
FieldsWithin == { f \in (1 .. 4) \X (1 .. 4) : f[1] + f[2] <= 5 }

\* C32: nth_m_digits(n, m) of a code is the m consecutive hexadecimal
\* digits that start at the n-th digit, counted from 1 at the most
\* significant end: (code >> 4 * (5 - n - m)) & (16^m - 1), for every code
\* and every n, m >= 1 with n + m <= 5; on 0x4CEE the fields (1,1), (2,1),
\* (3,1), (1,2), (2,2) are 0x4, 0xC, 0xE, 0x4C, 0xCE.
C32_NibbleExtraction ==
    Decoded =>
        /\ \A f \in FieldsWithin :
              nth_m_digits(Fetched, f[1], f[2]) =
                  (Fetched \div Pow2(4 * (5 - f[1] - f[2]))) % Pow2(4 * f[2])
        /\ Fetched = 19694 =>
              /\ nth_m_digits(Fetched, 1, 1) = 4
              /\ nth_m_digits(Fetched, 2, 1) = 12
              /\ nth_m_digits(Fetched, 3, 1) = 14
              /\ nth_m_digits(Fetched, 1, 2) = 76
              /\ nth_m_digits(Fetched, 2, 2) = 206

\* 0x4CEE has been decoded, its register from field (2, 1) and its constant
\* from field (3, 2)
C32_Witness ==
    /\ Decoded
    /\ Fetched = 19694
    /\ operation = <<"SkipNotEqualConstant", nth_m_digits(Fetched, 2, 1), 238>>
    /\ nth_m_digits(Fetched, 2, 2) = 206

----------------------------------------------------------------------------
(* Properties of the register loads and bitwise opcodes, checked under     *)
(* SpecLogic.                                                              *)

\* C33: AddToRegister(register, NN) never fails on overflow: it leaves the
\* register at (old value + NN) mod 256 and changes no other register; VF
\* is not modified unless it is the register added to.
C33_AddWrapping ==
    [][Runs("AddToRegister") =>
          /\ regs' = [regs EXCEPT ![operation[2]] = (@ + operation[3]) % 256]
          /\ ctl' = "sync"]_vars

\* 255 was added to 255 in V0: the register holds 254 and VF is still 1
C33_Witness ==
    /\ Executed("AddToRegister")
    /\ operation = <<"AddToRegister", 0, 255>>
    /\ regs[0] = 254
    /\ regs[15] = 1

\* bit k of a byte
BitOf(v, k) == (v \div Pow2(k)) % 2

\* the byte whose bit k is combine[bit k of a][bit k of b]
RECURSIVE Bitwise(_, _, _, _)
Bitwise(a, b, combine, k) ==
    IF k < 0 THEN 0
    ELSE combine[BitOf(a, k) + 1][BitOf(b, k) + 1] * Pow2(k) + Bitwise(a, b, combine, k - 1)

\* the value the destination of a bitwise opcode or a copy must receive
LogicResult(tag, dest, source) ==
    CASE tag = "CopyRegister" -> source
      [] tag = "Or" -> Bitwise(dest, source, <<<<0, 1>>, <<1, 1>>>>, 7)
      [] tag = "And" -> Bitwise(dest, source, <<<<0, 0>>, <<0, 1>>>>, 7)
      [] tag = "XOr" -> Bitwise(dest, source, <<<<0, 1>>, <<1, 0>>>>, 7)

\* C34: Or, And, XOr and CopyRegister write only the destination register,
\* dest OR / AND / XOR source or source itself, and leave every other
\* register unchanged; VF is not modified unless it is the destination.
C34_LogicWritesDest ==
    [][\A tag \in {"CopyRegister", "Or", "And", "XOr"} : Runs(tag) =>
          /\ regs' = [regs EXCEPT ![operation[2]] =
                        LogicResult(tag, regs[operation[2]], regs[operation[3]])]
          /\ ctl' = "sync"]_vars

\* 0x55 OR 0xAA has left 0xFF in V0, V1 still holds 0xAA and VF is still 1
C34_Witness ==
    /\ Executed("Or")
    /\ operation = <<"Or", 0, 1>>
    /\ regs[0] = 255
    /\ regs[1] = 170
    /\ regs[15] = 1

\* the opcode named tag is the last one executed and less than a millisecond
\* has passed since it was fetched
JustExecuted(tag) == ctl = "sync" /\ operation[1] = tag /\ elapsed_ins = 0

\* C35: a timer set to N > 0 by CopyRegisterToDelay or CopyRegisterToSound
\* is not decremented earlier than one tick interval (1000/60 ms) after it
\* was set and does not reach 0 earlier than N tick intervals after,
\* however long it had been at 0 before.  In particular the count still has
\* the value set while less than a millisecond has passed since the
\* setting opcode was fetched.
C35_FullIntervalAfterSet ==
    [][/\ (JustExecuted("CopyRegisterToDelay") /\ delay_timer > 0) =>
              delay_timer' = delay_timer
       /\ (JustExecuted("CopyRegisterToSound") /\ sound_timer > 0) =>
              sound_timer' = sound_timer]_vars

----------------------------------------------------------------------------
(* Properties of the addresses, checked under SpecAddress. *)

\* the opcodes that read or write the memory at the index register
IndexedOps ==
    {"Display", "ToDecimal", "LoadRegisterFromMemory", "StoreRegisterToMemory"}

\* C36: the index register stays within 12 bits, and no opcode that reads
\* or writes the memory through it uses an address outside 0..4095 (such
\* an access ends the process), after any sequence of SetIndexRegister,
\* AddToIndex and PointChar.
C36_IndexWithin12Bits ==
    /\ index <= MEM_SIZE - 1
    /\ ~(ctl = "panicked" /\ operation[1] \in IndexedOps)

----------------------------------------------------------------------------
(* Properties of saving registers, checked under SpecStore. *)

\* the values the ROMs of SpecStore give V0, V1, ... before the store
StoredValue(r) == IF r = 0 THEN 17 ELSE IF r = 1 THEN 34 ELSE 0

\* C38: StoreRegisterToMemory(x) followed by LoadRegisterFromMemory(x) is a
\* round trip.  The store copies V0..Vx inclusive to memory[I .. I + x] and
\* changes no other byte; the load copies memory[I .. I + x] to V0..Vx, so
\* that these registers hold the values they had at the store whatever was
\* done to them in between; the registers above x are left alone by both,
\* and neither changes the index register.
C38_StoreLoadRoundTrip ==
    [][/\ Runs("StoreRegisterToMemory") =>
              /\ \A a \in 0 .. MEM_SIZE - 1 :
                    MemGet(bytes', a) =
                        IF a \in index .. index + operation[2]
                        THEN regs[a - index] ELSE MemGet(bytes, a)
              /\ regs' = regs
              /\ index' = index
              /\ ctl' = "sync"
       /\ Runs("LoadRegisterFromMemory") =>
              /\ \A r \in 0 .. 15 :
                    regs'[r] = IF r <= operation[2]
                               THEN MemGet(bytes, index + r) ELSE regs[r]
              /\ \A r \in 0 .. operation[2] : regs'[r] = StoredValue(r)
              /\ bytes' = bytes
              /\ index' = index
              /\ ctl' = "sync"]_vars

\* V0 and V1 were stored, V0 was overwritten with 0xFF, and the load has
\* brought 0x11 back
C38_Witness ==
    /\ Executed("LoadRegisterFromMemory")
    /\ operation[2] = 1
    /\ InstructionAt(ROM_START + 8) = 24831
    /\ regs[0] = 17
    /\ regs[1] = 34
    /\ index = 768

----------------------------------------------------------------------------
(* Properties of the pacing, checked under SpecPace. *)

\* the number of instructions fetched for execution so far, the last of
\* them in the current loop iteration
Fetches == (pc - ROM_START) \div 2

\* C39: execution is paced at 700 instructions per second.  An instruction
\* is executed only when at least 1000/700 ms have passed since the
\* previous one, so at most one instruction is executed per loop iteration
\* and no more than 700 in any 1000 ms: the k-th instruction of a run, the
\* first of which starts a millisecond or more after start-up, is fetched
\* at least 1 + (k - 1) * 1000/700 ms after start-up.
C39_PacedAt700 ==
    (ctl = "execute" /\ elapsed_delay < MaxElapsed) =>
        (elapsed_delay - 1) * INS_PER_SECOND >= (Fetches - 1) * 1000

====
